---- MODULE Spec2Model ----
(***************************************************************************)
(* Model of the rotary pill dispenser firmware (1.Pill_Dispenser_ESP32):   *)
(* DispenserController (homing with retry and escalation, shortest-path    *)
(* compartment positioning, multi-attempt pick/drop cycles with IR edge    *)
(* counting, per-compartment statistics) on top of the stepper primitives  *)
(* of HardwareController and the switch / IR reads of SensorManager.       *)
(*                                                                         *)
(* The controller runs in one thread; every public method called by the    *)
(* main loop is modelled from entry to return as a sequence of steps,      *)
(* `pc` being the position inside the running call.  Sensor reads are      *)
(* inputs of the environment.                                              *)
(***************************************************************************)
EXTENDS Integers, Sequences, FiniteSets, TLC

(***************************************************************************)
(* Bounds of the model                                                     *)
(***************************************************************************)
\* largest homingRetryAttempts the configurations drawn in Init use
MaxRetryAttempts == 2
\* most step pulses one forward seek loop issues before its timeout
MaxSeekPulses == 2
\* most seek pulses that may stay unaccounted in currentPositionSteps
MaxUntrackedPulses == 2
\* a new call is accepted only while |currentPositionSteps| <= PosBound
PosBound == 160
\* the IR signal offers rising edges only while the counters sum below this
MaxTotalCount == 2
\* largest numberOfPillsToDispense the main loop passes
MaxPillsRequested == 2
\* longest IR sample sequence of one detection window (SpecWindow)
MaxSamples == 7
\* most BLE writes a behaviour of the command channel receives (SpecBLE)
MaxWrites == 3
\* most connections a client makes in a behaviour (SpecConnection)
MaxDisconnects == 3

(***************************************************************************)
(* Configuration (ConfigurationSettings.h)                                 *)
(***************************************************************************)
stepperStepsPerRevolution == 200
stepperMicrostepping == 1
stepperGearRatio == 1
numberOfCompartmentsInDispenser == 5
containerPositionsInDegrees == <<0, 72, 144, 216, 288>>
maximumDispenseAttempts == 3
stepperStepPulseWidthMicroseconds == 15000
stepperMinStepPulseWidthMicroseconds == 10000
stepperMaxStepPulseWidthMicroseconds == 50000
homingTimeoutIncrementPerRetry == 0
MAXIMUM_HOMING_TIMEOUT_MILLISECONDS == 10000
servoMinMicroseconds == 150
servoMaxMicroseconds == 2100
servoEndMarginMicroseconds == 0
homingDelayDecrementPerRetry == 0

\* tolerance of moveRotaryDispenserToCompartmentNumber: abs(stepsToMove) < 5
PositionToleranceSteps == 5
\* angle of the backward nudge off the home switch
BackwardNudgeDegrees == 10
\* angle of the forward nudge after a failed homing attempt
ForwardNudgeDegrees == 5

VARIABLES
    cfg,                               \* the fields of SystemConfiguration that vary
    isSystemHomedAndReady,
    currentCompartmentNumber,
    currentPositionSteps,
    dispensedCountForEachCompartment,
    pc,                                \* position inside the running call
    call,                              \* the public method running, its arguments and result
    hm,                                \* locals of performHomingWithRetryAndEscalation
    mv,                                \* locals of moveRotaryDispenserToCompartmentNumber
    dp,                                \* locals of dispensePillsFromCompartment / attemptToDispenseAndCountPills
    irSamples,                         \* what the IR sensor reads during the detection window
    pillCount,                         \* pillCount of the last detection window
    trayPulsesSinceReset,              \* net signed STEP pulses issued since resetPositionToHome
    actuated,                          \* a stepper, servo or electromagnet command was issued in this call
    entryCounts,                       \* the dispense counters when the running call was entered
    tray,                              \* the tray against the home switch, when the switch is modelled
    ble,                               \* BLEManager: command slot, flag, write callback and polling loop
    hw                                 \* HardwareController: servo position, electromagnet

vars == <<cfg, hw, isSystemHomedAndReady, currentCompartmentNumber, currentPositionSteps,
          dispensedCountForEachCompartment, pc, call, hm, mv, dp, irSamples, pillCount,
          trayPulsesSinceReset, actuated, entryCounts, tray, ble>>

ctrl == <<isSystemHomedAndReady, currentCompartmentNumber, currentPositionSteps,
          dispensedCountForEachCompartment>>

Abs(x) == IF x < 0 THEN -x ELSE x

\* (long) conversion of a quotient: truncation toward zero
TruncDiv(a, b) == IF a >= 0 THEN a \div b ELSE -((-a) \div b)

Compartments == 1..numberOfCompartmentsInDispenser

totalStepsPerRevolution ==
    stepperStepsPerRevolution * stepperMicrostepping * stepperGearRatio

calculateStepsForAngle(angleInDegrees) ==
    TruncDiv(angleInDegrees * totalStepsPerRevolution, 360)

compartmentStepPositions ==
    [i \in Compartments |->
        TruncDiv(containerPositionsInDegrees[i] * totalStepsPerRevolution, 360)]

\* HardwareController: the signed number of steps moved
moveStepperForwardBySteps(steps) == IF steps <= 0 THEN 0 ELSE steps

\* a backward move that reports the number of steps without the sign
moveStepperBackwardBySteps_Unsigned(steps) == IF steps <= 0 THEN 0 ELSE steps

\* HardwareController::moveStepperBackwardBySteps: -steps
moveStepperBackwardBySteps(steps) == IF steps <= 0 THEN 0 ELSE -steps

\* readings isHomePositionSwitchActivated() can return; reads between which
\* the tray does not move return the same value.  With the switch modelled
\* (no missed steps) it reads active exactly when the tray is on it.
SwitchReadings == IF tray.ideal THEN {tray.offset = 0} ELSE BOOLEAN

\* the tray after `steps` signed STEP pulses, each moving it by one step
TrayAfterPulses(steps) ==
    IF tray.ideal
    THEN [tray EXCEPT !.offset = (@ + steps) % totalStepsPerRevolution]
    ELSE tray

\* the forward seek loop runs `pulses` pulses without reaching the switch
SeekStaysOffSwitch(pulses) ==
    tray.ideal =>
        \A j \in 1..pulses : (tray.offset + j) % totalStepsPerRevolution # 0

\* Arduino constrain(amt, low, high)
constrain(amt, low, high) ==
    IF amt < low THEN low ELSE IF amt > high THEN high ELSE amt

(***************************************************************************)
(* Servo and electromagnet (HardwareController)                            *)
(***************************************************************************)
getServoMinSafe == servoMinMicroseconds + servoEndMarginMicroseconds

getServoMaxSafe == servoMaxMicroseconds - servoEndMarginMicroseconds

\* a servo move that takes the target as requested
moveServoToMicroseconds_Unclamped(targetMicroseconds) == targetMicroseconds

\* moveServoToMicroseconds: the position the servo is written to last
moveServoToMicroseconds(targetMicroseconds) ==
    constrain(targetMicroseconds, getServoMinSafe, getServoMaxSafe)

\* moveServoToRestPosition
moveServoToRestPosition == moveServoToMicroseconds(getServoMinSafe)

\* getCurrentServoPosition: the position read back, the minimum when the
\* reading is outside the safe range
getCurrentServoPosition ==
    IF hw.servo < getServoMinSafe \/ hw.servo > getServoMaxSafe
    THEN getServoMinSafe
    ELSE hw.servo

\* moveServoFromCurrentToMax
moveServoFromCurrentToMax == moveServoToMicroseconds(getServoMaxSafe)

\* an electromagnet that is left as it is
deactivateElectromagnetToReleasePill_KeepsState ==
    hw.isElectromagnetCurrentlyActivated

\* HardwareController::deactivateElectromagnetToReleasePill: the value of
\* isElectromagnetCurrentlyActivated after it
deactivateElectromagnetToReleasePill == FALSE

\* HardwareController after initializeAllHardwareActuators: electromagnet
\* off, servo at rest
InitialHardware ==
    [servo |-> moveServoToRestPosition,
     isElectromagnetCurrentlyActivated |-> FALSE]

\* an escalation that limits the delay from above only
attemptDelayOfAttempt_NoLowerLimit(attempt) ==
    LET baseDelay == cfg.stepperStepPulseWidthMicroseconds * 2
        raw == baseDelay - ((attempt - 1) * cfg.homingDelayDecrementPerRetry)
    IN  IF raw > baseDelay THEN baseDelay ELSE raw

\* performHomingWithRetryAndEscalation: attemptDelay of the given attempt
attemptDelayOfAttempt(attempt) ==
    LET baseDelay == cfg.stepperStepPulseWidthMicroseconds * 2
        minDelay == cfg.stepperMinStepPulseWidthMicroseconds * 2
    IN  constrain(baseDelay - ((attempt - 1) * cfg.homingDelayDecrementPerRetry),
                  minDelay, baseDelay)

\* performHomingWithRetryAndEscalation: attemptTimeout of the given attempt
attemptTimeoutOfAttempt(attempt) ==
    MAXIMUM_HOMING_TIMEOUT_MILLISECONDS
        + ((attempt - 1) * cfg.homingTimeoutIncrementPerRetry)

\* HardwareController::validateStepPulseWidth
validateStepPulseWidth(pulseWidthMicroseconds) ==
    constrain(pulseWidthMicroseconds, cfg.stepperMinStepPulseWidthMicroseconds,
              stepperMaxStepPulseWidthMicroseconds)

\* HardwareController::validateStepDelay
validateStepDelay(stepDelayMicroseconds) ==
    validateStepPulseWidth(TruncDiv(stepDelayMicroseconds, 2)) * 2

\* HardwareController::generateStepPulse: STEP is held HIGH and then LOW for
\* stepperStepPulseWidthMicroseconds each; the time one step takes
generateStepPulse == cfg.stepperStepPulseWidthMicroseconds * 2

\* HardwareController::stepWithDelay: the time the step takes; stepDelay is
\* not used
stepWithDelay(stepDelay) == generateStepPulse

\* HardwareController::rotateStepperForwardContinuous: the time the one
\* forward step takes
rotateStepperForwardContinuous(stepDelayMicroseconds) ==
    stepWithDelay(validateStepDelay(stepDelayMicroseconds))

RECURSIVE SumCounts(_, _)
SumCounts(counts, i) ==
    IF i = 0 THEN 0 ELSE counts[i] + SumCounts(counts, i - 1)

getTotalDispenseCount ==
    SumCounts(dispensedCountForEachCompartment, numberOfCompartmentsInDispenser)

getDispenseCountForCompartment(compartmentNumber) ==
    IF compartmentNumber >= 1 /\ compartmentNumber <= numberOfCompartmentsInDispenser
    THEN dispensedCountForEachCompartment[compartmentNumber]
    ELSE 0


(***************************************************************************)
(* Position Tracker                                                        *)
(***************************************************************************)
\* resetPositionToHome() that keeps the compartment label
resetPositionToHome_KeepsCompartment ==
    [currentPositionSteps |-> 0,
     currentCompartmentNumber |-> currentCompartmentNumber]

\* resetPositionToHome() that forgets to zero the step position
resetPositionToHome_KeepsSteps ==
    [currentPositionSteps |-> currentPositionSteps, currentCompartmentNumber |-> 0]

\* resetPositionToHome(): the values it assigns
resetPositionToHome ==
    [currentPositionSteps |-> 0, currentCompartmentNumber |-> 0]

\* a position update that adds the magnitude of every movement
updatePositionAfterMovement_Magnitude(stepsMoved) ==
    currentPositionSteps + Abs(stepsMoved)

\* updatePositionAfterMovement(stepsMoved): the new currentPositionSteps
updatePositionAfterMovement(stepsMoved) == currentPositionSteps + stepsMoved

\* moveRotaryDispenserToCompartmentNumber: the validation of the target
IsValidCompartment(targetCompartmentNumber) ==
    ~(targetCompartmentNumber < 1 \/
      targetCompartmentNumber > numberOfCompartmentsInDispenser)

\* a wraparound correction by half a revolution
ShortestPathStepsToMove_HalfTurn(targetCompartmentNumber, currentStepPosition) ==
    LET targetStepPosition == compartmentStepPositions[targetCompartmentNumber]
        stepsToMove == targetStepPosition - currentStepPosition
    IN  IF 2 * Abs(stepsToMove) > totalStepsPerRevolution
        THEN IF stepsToMove > 0
             THEN stepsToMove - (totalStepsPerRevolution \div 2)
             ELSE stepsToMove + (totalStepsPerRevolution \div 2)
        ELSE stepsToMove

\* moveRotaryDispenserToCompartmentNumber: stepsToMove with the wraparound correction
ShortestPathStepsToMove(targetCompartmentNumber, currentStepPosition) ==
    LET targetStepPosition == compartmentStepPositions[targetCompartmentNumber]
        stepsToMove == targetStepPosition - currentStepPosition
    IN  IF 2 * Abs(stepsToMove) > totalStepsPerRevolution
        THEN IF stepsToMove > 0
             THEN stepsToMove - totalStepsPerRevolution
             ELSE stepsToMove + totalStepsPerRevolution
        ELSE stepsToMove

(***************************************************************************)
(* IR detection window of attemptToDispenseAndCountPills                   *)
(***************************************************************************)
\* the polling loop: samples[i] is what the i-th read of the sensor returns,
\* samples[1] being the read that initialises lastSensorState
RECURSIVE PollWindow(_, _, _, _)
PollWindow(samples, i, lastSensorState, count) ==
    IF i > Len(samples) THEN count
    ELSE LET currentSensorState == samples[i]
         IN  PollWindow(samples, i + 1, currentSensorState,
                        IF ~lastSensorState /\ currentSensorState
                        THEN count + 1 ELSE count)

\* a window that counts the polls at which the sensor reads active
CountRisingEdges_ActiveSamples(samples) ==
    Cardinality({i \in 2..Len(samples) : samples[i]})

CountRisingEdges(samples) == PollWindow(samples, 2, samples[1], 0)

\* every sample sequence of 1..n reads
AllWindows(n) == UNION {[1..k -> BOOLEAN] : k \in 1..n}

\* the IR signals offered to the pick/drop cycles of a dispense call
DispenseWindows ==
    {<<FALSE>>, <<TRUE, TRUE>>, <<FALSE, TRUE>>, <<FALSE, TRUE, FALSE, TRUE>>}

(***************************************************************************)
(* Loop conditions                                                         *)
(***************************************************************************)
\* a homing loop without a limit on the attempts
HomingLoopContinues_NoLimit(attempt) == attempt >= 1

\* a homing loop that runs one attempt too few
HomingLoopContinues_OffByOne(attempt) == attempt < cfg.homingRetryAttempts

\* for (attempt = 1; attempt <= maxAttempts; attempt++) of the homing run
HomingLoopContinues(attempt) == attempt <= cfg.homingRetryAttempts

\* a dispense loop that gives up after a pill that was not detected
DispenseLoopContinues_StopsEarly(pillNumber, numberOfPillsToDispense) ==
    /\ pillNumber < numberOfPillsToDispense
    /\ (pillNumber = 0 \/ dp.pillsDetected > 0)

\* for (pillNumber = 0; pillNumber < numberOfPillsToDispense; pillNumber++)
DispenseLoopContinues(pillNumber, numberOfPillsToDispense) ==
    pillNumber < numberOfPillsToDispense

\* a cycle loop that runs one attempt too few
CycleLoopContinues_OffByOne(attemptNumber) ==
    attemptNumber < maximumDispenseAttempts

\* for (attemptNumber = 1; attemptNumber <= maxAttempts; attemptNumber++)
CycleLoopContinues(attemptNumber) == attemptNumber <= maximumDispenseAttempts

\* statistics that count one pill per successful invocation
CountersAfterDetection_OnePerInvocation(compartmentNumber, pillsDetected) ==
    IF compartmentNumber >= 1 /\ compartmentNumber <= numberOfCompartmentsInDispenser
    THEN [dispensedCountForEachCompartment EXCEPT ![compartmentNumber] = @ + 1]
    ELSE dispensedCountForEachCompartment

\* dispensePillsFromCompartment: the counters after pillsDetected increments
CountersAfterDetection(compartmentNumber, pillsDetected) ==
    IF compartmentNumber >= 1 /\ compartmentNumber <= numberOfCompartmentsInDispenser
    THEN [dispensedCountForEachCompartment EXCEPT ![compartmentNumber] = @ + pillsDetected]
    ELSE dispensedCountForEachCompartment

(***************************************************************************)
(* Initial state: the constructor has run, the main loop is idle           *)
(***************************************************************************)
NoCall == [name |-> "none", compartment |-> 0, count |-> 0,
           retInt |-> 0, retBool |-> FALSE,
           homedAtEntry |-> FALSE, atTarget |-> FALSE]

NoHoming == [caller |-> "none", attempt |-> 0, result |-> FALSE,
             seekAttempts |-> 0, sawActive |-> FALSE, entryHomed |-> FALSE,
             attemptDelay |-> 0, attemptTimeout |-> 0, seekStepDelay |-> 0,
             startActive |-> FALSE, forwardNudges |-> 0]

NoMove == [stepsToMove |-> 0, result |-> FALSE]

NoDispense == [pillNumber |-> 0, totalPillsDetected |-> 0, attemptNumber |-> 0,
               pillsDetected |-> 0, invocations |-> 0, sumDetected |-> 0,
               cycleCounts |-> <<>>, startPosition |-> 0]

ZeroCounts == [i \in Compartments |-> 0]

\* the configurations of the engine: the timing fields keep their defaults
Configurations ==
    [homingRetryAttempts : 1..MaxRetryAttempts,
     autoHomeAfterDispense : BOOLEAN,
     stepperStepPulseWidthMicroseconds : {stepperStepPulseWidthMicroseconds},
     stepperMinStepPulseWidthMicroseconds : {stepperMinStepPulseWidthMicroseconds},
     homingDelayDecrementPerRetry : {homingDelayDecrementPerRetry},
     homingTimeoutIncrementPerRetry : {homingTimeoutIncrementPerRetry}]

\* the home switch is an input of the environment, the tray is not tracked
FreeSwitch == [ideal |-> FALSE, offset |-> 0]

\* BLEManager after its constructor, no write callback running, the main
\* loop polling.  A command is named by the number of the write that
\* carried it; 0 is BLECommand(), the command of type NONE.
\*   callback   position of the write callback inside parseBLECommand...
\*   writing    the command the callback is parsing (0: unknown text)
\*   writes     writes received so far
\*   loop       position of the main loop
\*   command    the copy getAndClearMostRecentCommand returned to the loop
\*   handed     the accepted commands handed to the main loop, in order
NoBLE == [hasNewCommandToProcess |-> FALSE, mostRecentCommandReceived |-> 0,
          callback |-> "none", writing |-> 0, writes |-> 0,
          loop |-> "poll", command |-> 0, handed |-> <<>>,
          opsInProgress |-> 0]

Init ==
    /\ cfg \in Configurations
    /\ isSystemHomedAndReady = FALSE
    /\ currentCompartmentNumber = 0
    /\ currentPositionSteps = 0
    /\ dispensedCountForEachCompartment = ZeroCounts
    /\ pc = "idle"
    /\ call = NoCall
    /\ hm = NoHoming
    /\ mv = NoMove
    /\ dp = NoDispense
    /\ irSamples = <<>>
    /\ pillCount = 0
    /\ trayPulsesSinceReset = 0
    /\ actuated = FALSE
    /\ entryCounts = ZeroCounts
    /\ tray = FreeSwitch
    /\ hw = InitialHardware
    /\ ble = NoBLE

\* the main loop issues the next call
Accepting == pc = "idle" /\ Abs(currentPositionSteps) <= PosBound


(***************************************************************************)
(* Homing Engine: performHomingWithRetryAndEscalation                      *)
(***************************************************************************)
\* entry of the homing run: servo to rest, attempt = 1
StartHoming(caller) ==
    /\ hm' = [NoHoming EXCEPT !.caller = caller, !.attempt = 1,
                               !.entryHomed = isSystemHomedAndReady]
    /\ hw' = [hw EXCEPT !.servo = moveServoToRestPosition]
    /\ actuated' = TRUE
    /\ pc' = "homing_loop"

\* a short-circuit that does not look at isSystemHomedAndReady
ShortCircuitApplies_IgnoresHomed(switchActive) == switchActive

\* if (isSystemHomedAndReady && isHomePositionSwitchActivated())
ShortCircuitApplies(switchActive) == isSystemHomedAndReady /\ switchActive

\* the short-circuit of an attempt: previously homed and the switch reads active
HomingShortCircuit ==
    /\ pc = "homing_loop"
    /\ HomingLoopContinues(hm.attempt)
    /\ \E switchActive \in SwitchReadings :
          /\ ShortCircuitApplies(switchActive)
          /\ currentPositionSteps' = resetPositionToHome.currentPositionSteps
          /\ currentCompartmentNumber' = resetPositionToHome.currentCompartmentNumber
          /\ trayPulsesSinceReset' = 0
          /\ hm' = [hm EXCEPT !.result = TRUE, !.sawActive = TRUE,
                              !.startActive = TRUE,
                              !.attemptDelay = attemptDelayOfAttempt(hm.attempt),
                              !.attemptTimeout = attemptTimeoutOfAttempt(hm.attempt)]
          /\ pc' = "homing_return"
    /\ UNCHANGED <<cfg, hw, tray, ble, isSystemHomedAndReady, dispensedCountForEachCompartment,
                   call, mv, dp, irSamples, pillCount, actuated, entryCounts>>

\* start of an attempt without short-circuit: backward nudge off the switch
\* when it reads active, then the stepper is enabled for the forward seek
HomingAttemptStart ==
    /\ pc = "homing_loop"
    /\ HomingLoopContinues(hm.attempt)
    /\ \E switchActive \in SwitchReadings :
          /\ ~ShortCircuitApplies(switchActive)
          /\ LET stepsMoved ==
                     IF switchActive
                     THEN moveStepperBackwardBySteps(
                              calculateStepsForAngle(BackwardNudgeDegrees))
                     ELSE 0
             IN  /\ currentPositionSteps' = updatePositionAfterMovement(stepsMoved)
                 /\ trayPulsesSinceReset' = trayPulsesSinceReset + stepsMoved
                 /\ tray' = TrayAfterPulses(stepsMoved)
          /\ hm' = [hm EXCEPT !.sawActive = @ \/ switchActive,
                              !.startActive = switchActive,
                              !.attemptDelay = attemptDelayOfAttempt(hm.attempt),
                              !.attemptTimeout = attemptTimeoutOfAttempt(hm.attempt)]
    /\ actuated' = TRUE
    /\ pc' = "homing_seek"
    /\ UNCHANGED <<cfg, hw, ble, isSystemHomedAndReady, currentCompartmentNumber,
                   dispensedCountForEachCompartment, call, mv, dp, irSamples,
                   pillCount, entryCounts>>

\* the forward seek loop ends with the switch active: the run succeeds
HomingSeekFound ==
    /\ pc = "homing_seek"
    /\ currentPositionSteps' = resetPositionToHome.currentPositionSteps
    /\ currentCompartmentNumber' = resetPositionToHome.currentCompartmentNumber
    /\ trayPulsesSinceReset' = 0
    /\ isSystemHomedAndReady' = TRUE
    /\ hm' = [hm EXCEPT !.result = TRUE, !.sawActive = TRUE,
                        !.startActive = FALSE,
                        !.seekAttempts = @ + 1]
    /\ tray' = [tray EXCEPT !.offset = 0]
    /\ actuated' = TRUE
    /\ pc' = "homing_return"
    /\ UNCHANGED <<cfg, hw, ble, dispensedCountForEachCompartment, call, mv, dp,
                   irSamples, pillCount, entryCounts>>

\* a forward nudge after every failed attempt, the last one included
ForwardNudgeFollows_EveryAttempt(attempt) == attempt <= cfg.homingRetryAttempts

\* if (attempt < maxAttempts) after a failed attempt
ForwardNudgeFollows(attempt) == attempt < cfg.homingRetryAttempts

\* the forward seek loop ends and the switch reads inactive: the attempt
\* failed; a forward nudge follows unless it was the last attempt
HomingSeekFailed ==
    /\ pc = "homing_seek"
    /\ \E pulses \in 1..MaxSeekPulses :
          LET stepsMoved ==
                  IF ForwardNudgeFollows(hm.attempt)
                  THEN moveStepperForwardBySteps(
                           calculateStepsForAngle(ForwardNudgeDegrees))
                  ELSE 0
          IN  /\ Abs(trayPulsesSinceReset + pulses - currentPositionSteps)
                     <= MaxUntrackedPulses
              /\ SeekStaysOffSwitch(pulses)
              /\ currentPositionSteps' = updatePositionAfterMovement(stepsMoved)
              /\ trayPulsesSinceReset' = trayPulsesSinceReset + pulses + stepsMoved
              /\ tray' = TrayAfterPulses(pulses + stepsMoved)
              /\ hm' = [hm EXCEPT
                            !.attempt = @ + 1,
                            !.seekAttempts = @ + 1,
                            !.startActive = FALSE,
                            !.seekStepDelay =
                                rotateStepperForwardContinuous(hm.attemptDelay),
                            !.forwardNudges =
                                IF ForwardNudgeFollows(hm.attempt)
                                THEN @ + 1 ELSE @]
    /\ actuated' = TRUE
    /\ pc' = "homing_loop"
    /\ UNCHANGED <<cfg, hw, ble, isSystemHomedAndReady, currentCompartmentNumber,
                   dispensedCountForEachCompartment, call, mv, dp, irSamples,
                   pillCount, entryCounts>>

\* a failure path that leaves isSystemHomedAndReady as it was
HomedFlagAfterFailure_Unchanged == isSystemHomedAndReady

\* the value assigned to isSystemHomedAndReady when all attempts failed
HomedFlagAfterFailure == FALSE

\* all attempts failed
HomingExhausted ==
    /\ pc = "homing_loop"
    /\ ~HomingLoopContinues(hm.attempt)
    /\ isSystemHomedAndReady' = HomedFlagAfterFailure
    /\ hm' = [hm EXCEPT !.result = FALSE]
    /\ pc' = "homing_return"
    /\ UNCHANGED <<cfg, hw, tray, ble, currentCompartmentNumber, currentPositionSteps,
                   dispensedCountForEachCompartment, call, mv, dp, irSamples,
                   pillCount, trayPulsesSinceReset, actuated, entryCounts>>

\* the homing run returns to its caller
HomingReturn ==
    /\ pc = "homing_return"
    /\ CASE hm.caller = "cmd" ->
                /\ call' = [call EXCEPT !.retBool = hm.result]
                /\ pc' = "done"
         [] hm.caller = "ensure" ->
                /\ call' = call
                /\ pc' = "move_validate"
         [] hm.caller = "calibrate" ->
                IF hm.result
                THEN /\ call' = call
                     /\ pc' = "calibrate_check"
                ELSE /\ call' = [call EXCEPT !.retBool = FALSE]
                     /\ pc' = "done"
         [] OTHER ->
                /\ call' = [call EXCEPT !.retInt = dp.totalPillsDetected]
                /\ pc' = "done"
    /\ hm' = IF hm.caller = "ensure"
             THEN [NoHoming EXCEPT !.caller = "ensure", !.result = hm.result]
             ELSE hm
    /\ UNCHANGED <<cfg, hw, tray, ble, ctrl, mv, dp, irSamples, pillCount,
                   trayPulsesSinceReset, actuated, entryCounts>>

\* the main loop calls performHomingWithRetryAndEscalation (HOME command)
CallHome ==
    /\ Accepting
    /\ call' = [NoCall EXCEPT !.name = "home"]
    /\ entryCounts' = dispensedCountForEachCompartment
    /\ StartHoming("cmd")
    /\ UNCHANGED <<cfg, tray, ble, ctrl, mv, dp, irSamples, pillCount, trayPulsesSinceReset>>


(***************************************************************************)
(* Compartment movement: moveRotaryDispenserToCompartmentNumber            *)
(***************************************************************************)
\* compartment arguments the main loop passes
CompartmentArguments == 0..(numberOfCompartmentsInDispenser + 1)

\* compartment arguments of the dispense calls
DispenseArguments == {0, 3, 5, numberOfCompartmentsInDispenser + 1}

\* an ensureSystemIsHomed() that homes on every call
EnsureNeedsHoming_Always == TRUE

\* an ensureSystemIsHomed() that never homes
EnsureNeedsHoming_Never == FALSE

\* ensureSystemIsHomed(): if (!isSystemHomedAndReady)
EnsureNeedsHoming == ~isSystemHomedAndReady

\* ensureSystemIsHomed(): homes when not homed, the result is not looked at
EnsureSystemIsHomed ==
    /\ pc = "move_ensure"
    /\ IF EnsureNeedsHoming
       THEN StartHoming("ensure")
       ELSE /\ pc' = "move_validate"
            /\ UNCHANGED <<hm, hw, actuated>>
    /\ UNCHANGED <<cfg, tray, ble, ctrl, call, mv, dp, irSamples, pillCount,
                   trayPulsesSinceReset, entryCounts>>

\* invalid target: return false
MoveRejectInvalid ==
    /\ pc = "move_validate"
    /\ ~IsValidCompartment(call.compartment)
    /\ mv' = [mv EXCEPT !.result = FALSE]
    /\ pc' = "move_return"
    /\ UNCHANGED <<cfg, hw, tray, ble, ctrl, call, hm, dp, irSamples, pillCount,
                   trayPulsesSinceReset, actuated, entryCounts>>

\* the label already names the target: return true
MoveAlreadyThere ==
    /\ pc = "move_validate"
    /\ IsValidCompartment(call.compartment)
    /\ currentCompartmentNumber = call.compartment
    /\ mv' = [mv EXCEPT !.result = TRUE]
    /\ pc' = "move_return"
    /\ UNCHANGED <<cfg, hw, tray, ble, ctrl, call, hm, dp, irSamples, pillCount,
                   trayPulsesSinceReset, actuated, entryCounts>>

\* a tolerance that accepts the exact position only
WithinTolerance_OnlyExact(stepsToMove) == stepsToMove = 0

\* if (abs(stepsToMove) < 5)
WithinTolerance(stepsToMove) == Abs(stepsToMove) < PositionToleranceSteps

\* the corrected delta is below the tolerance: only the label changes
MoveWithinTolerance ==
    /\ pc = "move_validate"
    /\ IsValidCompartment(call.compartment)
    /\ currentCompartmentNumber # call.compartment
    /\ LET stepsToMove ==
               ShortestPathStepsToMove(call.compartment, currentPositionSteps)
       IN  /\ WithinTolerance(stepsToMove)
           /\ mv' = [stepsToMove |-> stepsToMove, result |-> TRUE]
    /\ currentCompartmentNumber' = call.compartment
    /\ pc' = "move_return"
    /\ UNCHANGED <<cfg, hw, tray, ble, isSystemHomedAndReady, currentPositionSteps,
                   dispensedCountForEachCompartment, call, hm, dp, irSamples,
                   pillCount, trayPulsesSinceReset, actuated, entryCounts>>

\* the delta is computed and is about to be issued to the stepper
MovePlan ==
    /\ pc = "move_validate"
    /\ IsValidCompartment(call.compartment)
    /\ currentCompartmentNumber # call.compartment
    /\ LET stepsToMove ==
               ShortestPathStepsToMove(call.compartment, currentPositionSteps)
       IN  /\ ~WithinTolerance(stepsToMove)
           /\ mv' = [mv EXCEPT !.stepsToMove = stepsToMove]
    /\ pc' = "move_step"
    /\ UNCHANGED <<cfg, hw, tray, ble, ctrl, call, hm, dp, irSamples, pillCount,
                   trayPulsesSinceReset, actuated, entryCounts>>

\* the steps are issued, the position is updated, the label is set
MoveIssueSteps ==
    /\ pc = "move_step"
    /\ LET stepsMoved ==
               IF mv.stepsToMove > 0
               THEN moveStepperForwardBySteps(mv.stepsToMove)
               ELSE moveStepperBackwardBySteps(Abs(mv.stepsToMove))
       IN  /\ currentPositionSteps' = updatePositionAfterMovement(stepsMoved)
           /\ trayPulsesSinceReset' = trayPulsesSinceReset + stepsMoved
           /\ tray' = TrayAfterPulses(stepsMoved)
    /\ currentCompartmentNumber' = call.compartment
    /\ mv' = [mv EXCEPT !.result = TRUE]
    /\ actuated' = TRUE
    /\ pc' = "move_return"
    /\ UNCHANGED <<cfg, hw, ble, isSystemHomedAndReady, dispensedCountForEachCompartment,
                   call, hm, dp, irSamples, pillCount, entryCounts>>

\* the move returns: to the main loop, or into dispensePillsFromCompartment
MoveReturn ==
    /\ pc = "move_return"
    /\ IF call.name = "move"
       THEN /\ call' = [call EXCEPT !.retBool = mv.result]
            /\ pc' = "done"
            /\ dp' = dp
       ELSE IF ~mv.result
            THEN /\ call' = [call EXCEPT !.retInt = 0]
                 /\ pc' = "done"
                 /\ dp' = dp
            ELSE /\ call' = call
                 /\ pc' = "dispense_loop"
                 /\ dp' = NoDispense
    /\ UNCHANGED <<cfg, hw, tray, ble, ctrl, hm, mv, irSamples, pillCount,
                   trayPulsesSinceReset, actuated, entryCounts>>

\* the main loop calls moveRotaryDispenserToCompartmentNumber
CallMove ==
    /\ Accepting
    /\ \E targetCompartmentNumber \in CompartmentArguments :
          call' = [NoCall EXCEPT !.name = "move",
                                 !.compartment = targetCompartmentNumber,
                                 !.homedAtEntry = isSystemHomedAndReady,
                                 !.atTarget = (currentCompartmentNumber =
                                                   targetCompartmentNumber)]
    /\ entryCounts' = dispensedCountForEachCompartment
    /\ pc' = "move_ensure"
    /\ UNCHANGED <<cfg, hw, tray, ble, ctrl, hm, mv, dp, irSamples, pillCount,
                   trayPulsesSinceReset, actuated>>


(***************************************************************************)
(* Dispense Engine: attemptToDispenseAndCountPills                         *)
(***************************************************************************)
\* a pick/drop cycle starts: electromagnet on, the position of the servo is
\* read as the position to return to
CycleStart ==
    /\ pc = "cycle_start"
    /\ CycleLoopContinues(dp.attemptNumber)
    /\ hw' = [hw EXCEPT !.isElectromagnetCurrentlyActivated = TRUE]
    /\ dp' = [dp EXCEPT !.startPosition = getCurrentServoPosition]
    /\ actuated' = TRUE
    /\ pc' = "cycle_lift"
    /\ UNCHANGED <<cfg, tray, ble, ctrl, call, hm, mv, irSamples, pillCount,
                   trayPulsesSinceReset, entryCounts>>

\* the servo is driven to the maximum; the environment fixes what the IR
\* sensor will read during the window
CycleServoToMax ==
    /\ pc = "cycle_lift"
    /\ \E samples \in DispenseWindows :
          /\ getTotalDispenseCount + CountRisingEdges(samples) <= MaxTotalCount
          /\ irSamples' = samples
    /\ hw' = [hw EXCEPT !.servo = moveServoFromCurrentToMax]
    /\ pc' = "cycle_window"
    /\ UNCHANGED <<cfg, tray, ble, ctrl, call, hm, mv, dp, pillCount,
                   trayPulsesSinceReset, actuated, entryCounts>>

\* the detection window: the sensor is polled and rising edges are counted
DetectionWindow ==
    /\ pc = "cycle_window"
    /\ pillCount' = CountRisingEdges(irSamples)
    /\ dp' = [dp EXCEPT !.cycleCounts = Append(@, CountRisingEdges(irSamples))]
    /\ pc' = "cycle_end"
    /\ UNCHANGED <<cfg, hw, tray, ble, ctrl, call, hm, mv, irSamples, trayPulsesSinceReset,
                   actuated, entryCounts>>

\* a servo left at the maximum after the window
ServoReturnTarget_StaysAtMax == getServoMaxSafe

\* moveServoToMicroseconds(startPosition) after the window
ServoReturnTarget == dp.startPosition

\* the servo is returned to the position it had when the cycle started
CycleServoReturn ==
    /\ pc = "cycle_end"
    /\ hw' = [hw EXCEPT !.servo = moveServoToMicroseconds(ServoReturnTarget)]
    /\ irSamples' = <<>>
    /\ pc' = "cycle_release"
    /\ UNCHANGED <<cfg, tray, ble, ctrl, call, hm, mv, dp, pillCount,
                   trayPulsesSinceReset, actuated, entryCounts>>

\* the cycle ends: electromagnet off; the routine returns pillCount when it
\* is positive, otherwise the next attempt follows
CycleEnd ==
    /\ pc = "cycle_release"
    /\ hw' = [hw EXCEPT !.isElectromagnetCurrentlyActivated =
                            deactivateElectromagnetToReleasePill]
    /\ IF pillCount > 0
       THEN /\ dp' = [dp EXCEPT !.pillsDetected = pillCount]
            /\ pc' = "dispense_accumulate"
       ELSE /\ dp' = [dp EXCEPT !.attemptNumber = @ + 1]
            /\ pc' = "cycle_start"
    /\ UNCHANGED <<cfg, tray, ble, ctrl, call, hm, mv, irSamples, pillCount,
                   trayPulsesSinceReset, actuated, entryCounts>>

\* all attempts counted nothing: the routine returns 0
CycleExhausted ==
    /\ pc = "cycle_start"
    /\ ~CycleLoopContinues(dp.attemptNumber)
    /\ dp' = [dp EXCEPT !.pillsDetected = 0]
    /\ pc' = "dispense_accumulate"
    /\ UNCHANGED <<cfg, hw, tray, ble, ctrl, call, hm, mv, irSamples, pillCount,
                   trayPulsesSinceReset, actuated, entryCounts>>

(***************************************************************************)
(* Dispense Engine: dispensePillsFromCompartment                           *)
(***************************************************************************)
\* the loop invokes the single-pill routine for the next pill
DispenseNextPill ==
    /\ pc = "dispense_loop"
    /\ DispenseLoopContinues(dp.pillNumber, call.count)
    /\ dp' = [dp EXCEPT !.attemptNumber = 1, !.pillsDetected = 0,
                        !.invocations = @ + 1, !.cycleCounts = <<>>]
    /\ pillCount' = 0
    /\ pc' = "cycle_start"
    /\ UNCHANGED <<cfg, hw, tray, ble, ctrl, call, hm, mv, irSamples, trayPulsesSinceReset,
                   actuated, entryCounts>>

\* the routine has returned pillsDetected: total and statistics are updated
DispenseAccumulate ==
    /\ pc = "dispense_accumulate"
    /\ dp' = [dp EXCEPT !.totalPillsDetected =
                            IF dp.pillsDetected > 0 THEN @ + dp.pillsDetected ELSE @,
                        !.sumDetected = @ + dp.pillsDetected,
                        !.pillNumber = @ + 1]
    /\ dispensedCountForEachCompartment' =
           IF dp.pillsDetected > 0
           THEN CountersAfterDetection(call.compartment, dp.pillsDetected)
           ELSE dispensedCountForEachCompartment
    /\ pc' = "dispense_loop"
    /\ UNCHANGED <<cfg, hw, tray, ble, isSystemHomedAndReady, currentCompartmentNumber,
                   currentPositionSteps, call, hm, mv, irSamples, pillCount,
                   trayPulsesSinceReset, actuated, entryCounts>>

\* an auto-rehome that does not look at the number of pills detected
AutoHomeCondition_IgnoresCount == cfg.autoHomeAfterDispense

\* the condition of the homing run after the loop
AutoHomeCondition == cfg.autoHomeAfterDispense /\ dp.totalPillsDetected > 0

\* after the loop: auto-rehome
DispenseAutoHome ==
    /\ pc = "dispense_loop"
    /\ ~DispenseLoopContinues(dp.pillNumber, call.count)
    /\ AutoHomeCondition
    /\ StartHoming("auto")
    /\ UNCHANGED <<cfg, tray, ble, ctrl, call, mv, dp, irSamples, pillCount,
                   trayPulsesSinceReset, entryCounts>>

\* after the loop, no auto-rehome: return totalPillsDetected
DispenseReturn ==
    /\ pc = "dispense_loop"
    /\ ~DispenseLoopContinues(dp.pillNumber, call.count)
    /\ ~AutoHomeCondition
    /\ call' = [call EXCEPT !.retInt = dp.totalPillsDetected]
    /\ pc' = "done"
    /\ UNCHANGED <<cfg, hw, tray, ble, ctrl, hm, mv, dp, irSamples, pillCount,
                   trayPulsesSinceReset, actuated, entryCounts>>

\* the main loop calls dispensePillsFromCompartment; the count is an int the
\* function takes as it is, 0 included
CallDispense ==
    /\ Accepting
    /\ \E compartmentNumber \in DispenseArguments,
          numberOfPillsToDispense \in 0..MaxPillsRequested :
          call' = [NoCall EXCEPT !.name = "dispense",
                                 !.compartment = compartmentNumber,
                                 !.count = numberOfPillsToDispense,
                                 !.homedAtEntry = isSystemHomedAndReady]
    /\ entryCounts' = dispensedCountForEachCompartment
    /\ pc' = "move_ensure"
    /\ UNCHANGED <<cfg, hw, tray, ble, ctrl, hm, mv, dp, irSamples, pillCount,
                   trayPulsesSinceReset, actuated>>

(***************************************************************************)
(* Statistics                                                              *)
(***************************************************************************)
\* a reset loop that stops one compartment early
resetAllDispenseStatistics_SkipsLast ==
    [i \in Compartments |->
        IF i < numberOfCompartmentsInDispenser
        THEN 0
        ELSE dispensedCountForEachCompartment[i]]

\* resetAllDispenseStatistics(): the counters after the loop
resetAllDispenseStatistics == [i \in Compartments |-> 0]

\* the main loop calls resetAllDispenseStatistics (RESET command)
CallReset ==
    /\ Accepting
    /\ call' = [NoCall EXCEPT !.name = "reset"]
    /\ entryCounts' = dispensedCountForEachCompartment
    /\ dispensedCountForEachCompartment' = resetAllDispenseStatistics
    /\ pc' = "done"
    /\ UNCHANGED <<cfg, hw, tray, ble, isSystemHomedAndReady, currentCompartmentNumber,
                   currentPositionSteps, hm, mv, dp, irSamples,
                   pillCount, trayPulsesSinceReset, actuated>>

\* the call has returned; the main loop goes back to polling for commands
ReturnToMainLoop ==
    /\ pc = "done"
    /\ pc' = "idle"
    /\ call' = NoCall
    /\ hm' = NoHoming
    /\ mv' = NoMove
    /\ dp' = NoDispense
    /\ irSamples' = <<>>
    /\ pillCount' = 0
    /\ actuated' = FALSE
    /\ entryCounts' = ZeroCounts
    /\ UNCHANGED <<cfg, hw, tray, ble, ctrl, trayPulsesSinceReset>>

Next ==
    \/ CallHome
    \/ CallMove
    \/ CallDispense
    \/ CallReset
    \/ HomingShortCircuit
    \/ HomingAttemptStart
    \/ HomingSeekFound
    \/ HomingSeekFailed
    \/ HomingExhausted
    \/ HomingReturn
    \/ EnsureSystemIsHomed
    \/ MoveRejectInvalid
    \/ MoveAlreadyThere
    \/ MoveWithinTolerance
    \/ MovePlan
    \/ MoveIssueSteps
    \/ MoveReturn
    \/ DispenseNextPill
    \/ CycleStart
    \/ CycleServoToMax
    \/ DetectionWindow
    \/ CycleServoReturn
    \/ CycleEnd
    \/ CycleExhausted
    \/ DispenseAccumulate
    \/ DispenseAutoHome
    \/ DispenseReturn
    \/ ReturnToMainLoop

Spec == Init /\ [][Next]_vars

(***************************************************************************)
(* One detection window on its own, over every sample sequence             *)
(***************************************************************************)
InitWindow ==
    /\ cfg \in Configurations
    /\ isSystemHomedAndReady = TRUE
    /\ currentCompartmentNumber = 3
    /\ currentPositionSteps = compartmentStepPositions[3]
    /\ dispensedCountForEachCompartment = ZeroCounts
    /\ pc = "cycle_window"
    /\ call = [NoCall EXCEPT !.name = "dispense", !.compartment = 3, !.count = 1]
    /\ hm = NoHoming
    /\ mv = [stepsToMove |-> compartmentStepPositions[3], result |-> TRUE]
    /\ dp = [NoDispense EXCEPT !.attemptNumber = 1, !.invocations = 1,
                             !.startPosition = moveServoToRestPosition]
    /\ irSamples \in AllWindows(MaxSamples)
    /\ pillCount = 0
    /\ trayPulsesSinceReset = compartmentStepPositions[3]
    /\ actuated = TRUE
    /\ entryCounts = ZeroCounts
    /\ tray = FreeSwitch
    /\ hw = [servo |-> moveServoFromCurrentToMax,
             isElectromagnetCurrentlyActivated |-> TRUE]
    /\ ble = NoBLE

NextWindow == DetectionWindow

SpecWindow == InitWindow /\ [][NextWindow]_vars


(***************************************************************************)
(* Homing runs over the timing configurations: every combination of base   *)
(* pulse width, minimum pulse width and per-retry decrement below, with up *)
(* to MaxRetryAttempts + 1 attempts                                        *)
(***************************************************************************)
\* values of stepperStepPulseWidthMicroseconds and
\* stepperMinStepPulseWidthMicroseconds, the base below, at and above the minimum
PulseWidthsUnderTest == {5000, stepperMinStepPulseWidthMicroseconds,
                         stepperStepPulseWidthMicroseconds}

\* values of homingDelayDecrementPerRetry (an int field)
DecrementsUnderTest == {-12000, homingDelayDecrementPerRetry, 4000, 12000, 40000}

\* values of homingTimeoutIncrementPerRetry
IncrementsUnderTest == {homingTimeoutIncrementPerRetry, 500}

EscalationConfigurations ==
    [homingRetryAttempts : 1..(MaxRetryAttempts + 1),
     autoHomeAfterDispense : {TRUE},
     stepperStepPulseWidthMicroseconds : PulseWidthsUnderTest,
     stepperMinStepPulseWidthMicroseconds : PulseWidthsUnderTest,
     homingDelayDecrementPerRetry : DecrementsUnderTest,
     homingTimeoutIncrementPerRetry : IncrementsUnderTest]

InitEscalation ==
    /\ cfg \in EscalationConfigurations
    /\ isSystemHomedAndReady = FALSE
    /\ currentCompartmentNumber = 0
    /\ currentPositionSteps = 0
    /\ dispensedCountForEachCompartment = ZeroCounts
    /\ pc = "idle"
    /\ call = NoCall
    /\ hm = NoHoming
    /\ mv = NoMove
    /\ dp = NoDispense
    /\ irSamples = <<>>
    /\ pillCount = 0
    /\ trayPulsesSinceReset = 0
    /\ actuated = FALSE
    /\ entryCounts = ZeroCounts
    /\ tray = FreeSwitch
    /\ hw = InitialHardware
    /\ ble = NoBLE

NextEscalation ==
    \/ CallHome
    \/ HomingShortCircuit
    \/ HomingAttemptStart
    \/ HomingSeekFound
    \/ HomingSeekFailed
    \/ HomingExhausted
    \/ HomingReturn
    \/ ReturnToMainLoop

SpecEscalation == InitEscalation /\ [][NextEscalation]_vars

(***************************************************************************)
(* Homing and compartment moves with the home switch modelled: no missed   *)
(* steps, the switch reads active exactly at the position where the seek   *)
(* stops; the tray starts anywhere                                         *)
(***************************************************************************)
InitRoundTrip ==
    /\ cfg \in Configurations
    /\ isSystemHomedAndReady = FALSE
    /\ currentCompartmentNumber = 0
    /\ currentPositionSteps = 0
    /\ dispensedCountForEachCompartment = ZeroCounts
    /\ pc = "idle"
    /\ call = NoCall
    /\ hm = NoHoming
    /\ mv = NoMove
    /\ dp = NoDispense
    /\ irSamples = <<>>
    /\ pillCount = 0
    /\ trayPulsesSinceReset = 0
    /\ actuated = FALSE
    /\ entryCounts = ZeroCounts
    /\ tray \in [ideal : {TRUE}, offset : 0..(totalStepsPerRevolution - 1)]
    /\ hw = InitialHardware
    /\ ble = NoBLE

NextRoundTrip ==
    \/ CallHome
    \/ CallMove
    \/ HomingShortCircuit
    \/ HomingAttemptStart
    \/ HomingSeekFound
    \/ HomingSeekFailed
    \/ HomingExhausted
    \/ HomingReturn
    \/ EnsureSystemIsHomed
    \/ MoveRejectInvalid
    \/ MoveAlreadyThere
    \/ MoveWithinTolerance
    \/ MovePlan
    \/ MoveIssueSteps
    \/ MoveReturn
    \/ ReturnToMainLoop

SpecRoundTrip == InitRoundTrip /\ [][NextRoundTrip]_vars

(***************************************************************************)
(* calibrateFullRotationTiming: a homing run, a backward move off the      *)
(* switch and a forward rotation until the switch reads active again or    *)
(* 30 s have passed                                                        *)
(***************************************************************************)
\* the main loop calls calibrateFullRotationTiming; it starts with a homing run
CallCalibrate ==
    /\ Accepting
    /\ call' = [NoCall EXCEPT !.name = "calibrate",
                              !.homedAtEntry = isSystemHomedAndReady]
    /\ entryCounts' = dispensedCountForEachCompartment
    /\ StartHoming("calibrate")
    /\ UNCHANGED <<cfg, tray, ble, ctrl, mv, dp, irSamples, pillCount, trayPulsesSinceReset>>

\* after the homing run: return false unless the switch reads active
CalibrateCheckSwitch ==
    /\ pc = "calibrate_check"
    /\ \E switchActive \in SwitchReadings :
          IF switchActive
          THEN /\ pc' = "calibrate_back"
               /\ call' = call
          ELSE /\ pc' = "done"
               /\ call' = [call EXCEPT !.retBool = FALSE]
    /\ UNCHANGED <<cfg, hw, tray, ble, ctrl, hm, mv, dp, irSamples, pillCount,
                   trayPulsesSinceReset, actuated, entryCounts>>

\* the tray is moved 10 degrees backward off the switch; the steps are tracked
CalibrateMoveOff ==
    /\ pc = "calibrate_back"
    /\ LET stepsMoved ==
               moveStepperBackwardBySteps(calculateStepsForAngle(BackwardNudgeDegrees))
       IN  /\ currentPositionSteps' = updatePositionAfterMovement(stepsMoved)
           /\ trayPulsesSinceReset' = trayPulsesSinceReset + stepsMoved
           /\ tray' = TrayAfterPulses(stepsMoved)
    /\ actuated' = TRUE
    /\ pc' = "calibrate_rotate"
    /\ UNCHANGED <<cfg, hw, ble, isSystemHomedAndReady, currentCompartmentNumber,
                   dispensedCountForEachCompartment, call, hm, mv, dp, irSamples,
                   pillCount, entryCounts>>

\* the forward rotation ends with the switch active: the timing is computed
\* and the position is reset to home
CalibrateRotationComplete ==
    /\ pc = "calibrate_rotate"
    /\ currentPositionSteps' = resetPositionToHome.currentPositionSteps
    /\ currentCompartmentNumber' = resetPositionToHome.currentCompartmentNumber
    /\ trayPulsesSinceReset' = 0
    /\ tray' = [tray EXCEPT !.offset = 0]
    /\ call' = [call EXCEPT !.retBool = TRUE]
    /\ actuated' = TRUE
    /\ pc' = "done"
    /\ UNCHANGED <<cfg, hw, ble, isSystemHomedAndReady,
                   dispensedCountForEachCompartment, hm, mv, dp, irSamples,
                   pillCount, entryCounts>>

\* the forward rotation is cut by the 30 s timeout after `pulses` pulses:
\* the motor is stopped and false is returned
CalibrateRotationTimeout ==
    /\ pc = "calibrate_rotate"
    /\ \E pulses \in 1..MaxSeekPulses :
          /\ Abs(trayPulsesSinceReset + pulses - currentPositionSteps)
                 <= MaxUntrackedPulses
          /\ SeekStaysOffSwitch(pulses)
          /\ trayPulsesSinceReset' = trayPulsesSinceReset + pulses
          /\ tray' = TrayAfterPulses(pulses)
    /\ call' = [call EXCEPT !.retBool = FALSE]
    /\ actuated' = TRUE
    /\ pc' = "done"
    /\ UNCHANGED <<cfg, hw, ble, ctrl, hm, mv, dp, irSamples, pillCount, entryCounts>>

\* positions of the tray at power-up: on the switch, next to it on either
\* side, and opposite it
TrayOffsetsAtStart == {0, 1, totalStepsPerRevolution \div 2,
                       totalStepsPerRevolution - 1}

InitCalibration ==
    /\ cfg \in Configurations
    /\ isSystemHomedAndReady = FALSE
    /\ currentCompartmentNumber = 0
    /\ currentPositionSteps = 0
    /\ dispensedCountForEachCompartment = ZeroCounts
    /\ pc = "idle"
    /\ call = NoCall
    /\ hm = NoHoming
    /\ mv = NoMove
    /\ dp = NoDispense
    /\ irSamples = <<>>
    /\ pillCount = 0
    /\ trayPulsesSinceReset = 0
    /\ actuated = FALSE
    /\ entryCounts = ZeroCounts
    /\ tray \in [ideal : {TRUE}, offset : TrayOffsetsAtStart]
    /\ hw = InitialHardware
    /\ ble = NoBLE

NextCalibration ==
    \/ CallHome
    \/ CallMove
    \/ CallCalibrate
    \/ HomingShortCircuit
    \/ HomingAttemptStart
    \/ HomingSeekFound
    \/ HomingSeekFailed
    \/ HomingExhausted
    \/ HomingReturn
    \/ EnsureSystemIsHomed
    \/ MoveRejectInvalid
    \/ MoveAlreadyThere
    \/ MoveWithinTolerance
    \/ MovePlan
    \/ MoveIssueSteps
    \/ MoveReturn
    \/ CalibrateCheckSwitch
    \/ CalibrateMoveOff
    \/ CalibrateRotationComplete
    \/ CalibrateRotationTimeout
    \/ ReturnToMainLoop

SpecCalibration == InitCalibration /\ [][NextCalibration]_vars

(***************************************************************************)
(* Command channel: the BLE write callback runs on the BLE task, the main  *)
(* loop polls BLEManager; the fields they share are plain members, so the  *)
(* statements of the two interleave freely                                 *)
(***************************************************************************)
\* the state of the controller, which the BLEManager never touches
engine == <<cfg, hw, isSystemHomedAndReady, currentCompartmentNumber,
            currentPositionSteps, dispensedCountForEachCompartment, pc, call,
            hm, mv, dp, irSamples, pillCount, trayPulsesSinceReset, actuated,
            entryCounts, tray>>

\* onWrite: a non-empty value arrives and parseBLECommandAndExtractParameters
\* is entered, with a known command text or an unknown one
BLEWrite ==
    /\ ble.callback = "none"
    /\ ble.writes < MaxWrites
    /\ \E known \in BOOLEAN :
          ble' = [ble EXCEPT !.callback = "reset",
                             !.writes = @ + 1,
                             !.writing = IF known THEN ble.writes + 1 ELSE 0]
    /\ UNCHANGED engine

\* mostRecentCommandReceived = BLECommand(); an unknown text ends in the
\* error response and leaves the flag alone
ParseResetSlot ==
    /\ ble.callback = "reset"
    /\ ble' = [ble EXCEPT !.mostRecentCommandReceived = 0,
                          !.callback = IF ble.writing = 0 THEN "none" ELSE "fields"]
    /\ UNCHANGED engine

\* the fields of the command are stored
ParseSetFields ==
    /\ ble.callback = "fields"
    /\ ble' = [ble EXCEPT !.mostRecentCommandReceived = ble.writing,
                          !.callback = "flag"]
    /\ UNCHANGED engine

\* a write callback that runs the command itself
EngineOpsStartedByCallback_One == IF ble.writing # 0 THEN 1 ELSE 0

\* engine operations parseBLECommandAndExtractParameters starts: it only
\* stores the command
EngineOpsStartedByCallback == 0

\* hasNewCommandToProcess = true; the callback returns
ParseSetFlag ==
    /\ ble.callback = "flag"
    /\ ble' = [ble EXCEPT !.hasNewCommandToProcess = TRUE,
                          !.callback = "none",
                          !.writing = 0,
                          !.opsInProgress = @ + EngineOpsStartedByCallback]
    /\ UNCHANGED engine

\* the main loop: if (hasNewCommandAvailableToProcess()) ...
LoopPoll ==
    /\ ble.loop = "poll"
    /\ ble.hasNewCommandToProcess
    /\ ble' = [ble EXCEPT !.loop = "clear"]
    /\ UNCHANGED engine

\* getAndClearMostRecentCommand: hasNewCommandToProcess = false
GetClearFlag ==
    /\ ble.loop = "clear"
    /\ ble' = [ble EXCEPT !.hasNewCommandToProcess = FALSE, !.loop = "copy"]
    /\ UNCHANGED engine

\* getAndClearMostRecentCommand: return mostRecentCommandReceived; a
\* command of type NONE is not dispatched
GetCopyCommand ==
    /\ ble.loop = "copy"
    /\ ble' = [ble EXCEPT
                  !.command = ble.mostRecentCommandReceived,
                  !.handed = IF ble.mostRecentCommandReceived = 0
                             THEN @
                             ELSE Append(@, ble.mostRecentCommandReceived),
                  !.loop = IF ble.mostRecentCommandReceived = 0
                           THEN "poll"
                           ELSE "dispatch"]
    /\ UNCHANGED engine

\* the main loop calls the engine operation of the command
EngineStart ==
    /\ ble.loop = "dispatch"
    /\ ble' = [ble EXCEPT !.opsInProgress = @ + 1, !.loop = "exec"]
    /\ UNCHANGED engine

\* the engine operation returns (success or exhausted failure)
EngineReturn ==
    /\ ble.loop = "exec"
    /\ ble' = [ble EXCEPT !.opsInProgress = @ - 1, !.command = 0,
                          !.loop = "poll"]
    /\ UNCHANGED engine

InitBLE == Init

NextBLE ==
    \/ BLEWrite
    \/ ParseResetSlot
    \/ ParseSetFields
    \/ ParseSetFlag
    \/ LoopPoll
    \/ GetClearFlag
    \/ GetCopyCommand
    \/ EngineStart
    \/ EngineReturn

SpecBLE == InitBLE /\ [][NextBLE]_vars

\* the statements of the main loop, which runs for ever
MainLoopStep ==
    \/ LoopPoll
    \/ GetClearFlag
    \/ GetCopyCommand
    \/ EngineStart
    \/ EngineReturn

\* the statements of a write callback that has been entered
WriteCallbackStep ==
    \/ ParseResetSlot
    \/ ParseSetFields
    \/ ParseSetFlag

\* the command channel with both tasks scheduled: the main loop keeps
\* running and an entered callback runs to its end; writes arrive when the
\* client sends them
SpecBLEFair ==
    InitBLE /\ [][NextBLE]_vars /\ WF_vars(MainLoopStep) /\ WF_vars(WriteCallbackStep)

(***************************************************************************)
(* Command parser: a command line is a sequence of characters, handled     *)
(* with the operations of the Arduino String class, positions counted      *)
(* from 0                                                                  *)
(***************************************************************************)
Digits == <<"0", "1", "2", "3", "4", "5", "6", "7", "8", "9">>

DigitValue(c) == (CHOOSE i \in 1..10 : Digits[i] = c) - 1

IsDigit(c) == \E i \in 1..10 : Digits[i] = c

\* String::startsWith with only the length test
startsWith_SameLength(s, prefix) == Len(prefix) <= Len(s)

\* String::startsWith
startsWith(s, prefix) ==
    /\ Len(prefix) <= Len(s)
    /\ SubSeq(s, 1, Len(prefix)) = prefix

\* String::indexOf(ch, fromIndex): -1 when ch does not occur from there on
indexOf(s, ch, fromIndex) ==
    LET found == {i \in fromIndex..(Len(s) - 1) : s[i + 1] = ch}
    IN  IF found = {} THEN -1 ELSE CHOOSE i \in found : \A j \in found : i <= j

\* String::substring(left, right): the characters at left .. right-1
substring(s, left, right) ==
    LET lo == IF left > right THEN right ELSE left
        hi == IF left > right THEN left ELSE right
        end == IF hi > Len(s) THEN Len(s) ELSE hi
    IN  IF lo >= Len(s) THEN <<>> ELSE SubSeq(s, lo + 1, end)

RECURSIVE SkipSpaces(_)
SkipSpaces(s) ==
    IF s # <<>> /\ Head(s) = " " THEN SkipSpaces(Tail(s)) ELSE s

RECURSIVE DigitsValue(_, _)
DigitsValue(s, acc) ==
    IF s # <<>> /\ IsDigit(Head(s))
    THEN DigitsValue(Tail(s), 10 * acc + DigitValue(Head(s)))
    ELSE acc

\* String::toInt (atol): leading blanks, an optional sign, then digits up to
\* the first other character; 0 when there is no digit to convert
toInt(s) ==
    LET t == SkipSpaces(s)
    IN  IF t # <<>> /\ Head(t) = "-" THEN 0 - DigitsValue(Tail(t), 0)
        ELSE IF t # <<>> /\ Head(t) = "+" THEN DigitsValue(Tail(t), 0)
        ELSE DigitsValue(t, 0)

\* BLECommand(): commandType NONE, compartmentNumber 0, pillCount 1
BLECommand == [commandType |-> "NONE", compartmentNumber |-> 0, pillCount |-> 1]

DispensePrefix == <<"D", "I", "S", "P", "E", "N", "S", "E", ":">>

StatusText == <<"S", "T", "A", "T", "U", "S">>

ResetText == <<"R", "E", "S", "E", "T">>

HomeText == <<"H", "O", "M", "E">>

UnknownCommandText ==
    <<"U", "n", "k", "n", "o", "w", "n", " ",
      "c", "o", "m", "m", "a", "n", "d", ":", " ">>

\* "{status:ERROR, message:\"" + errorMessage + "\"}"
ErrorResponse(errorMessage) ==
    <<"{", "s", "t", "a", "t", "u", "s", ":", "E", "R", "R", "O", "R", ",",
      " ", "m", "e", "s", "s", "a", "g", "e", ":", "\"">>
    \o errorMessage \o <<"\"", "}">>

\* the count of a DISPENSE line without the lower limit of 1
FlooredPillCount_AsParsed(parsed) == parsed

\* if (pillCount < 1) pillCount = 1
FlooredPillCount(parsed) == IF parsed < 1 THEN 1 ELSE parsed

\* the DISPENSE branch: compartment between the first and the second colon
\* (or the end of the line), count after the second colon if there is one
ParsedDispense(commandString) ==
    LET firstColonPosition == indexOf(commandString, ":", 0)
        secondColonPosition ==
            indexOf(commandString, ":", firstColonPosition + 1)
        compartmentString ==
            substring(commandString, firstColonPosition + 1,
                      IF secondColonPosition > 0 THEN secondColonPosition
                      ELSE Len(commandString))
        countString ==
            substring(commandString, secondColonPosition + 1,
                      Len(commandString))
    IN  [commandType |-> "DISPENSE",
         compartmentNumber |-> toInt(compartmentString),
         pillCount |-> IF secondColonPosition > 0
                       THEN FlooredPillCount(toInt(countString))
                       ELSE BLECommand.pillCount]

\* the slot, the flag and the response after
\* parseBLECommandAndExtractParameters(commandString); the error response
\* goes out to a connected device only
parseBLECommandAndExtractParameters(b, commandString) ==
    IF startsWith(commandString, DispensePrefix)
    THEN [b EXCEPT !.mostRecentCommandReceived = ParsedDispense(commandString),
                   !.hasNewCommandToProcess = TRUE,
                   !.response = <<>>]
    ELSE IF commandString = StatusText
    THEN [b EXCEPT !.mostRecentCommandReceived =
                       [BLECommand EXCEPT !.commandType = "STATUS"],
                   !.hasNewCommandToProcess = TRUE,
                   !.response = <<>>]
    ELSE IF commandString = ResetText
    THEN [b EXCEPT !.mostRecentCommandReceived =
                       [BLECommand EXCEPT !.commandType = "RESET"],
                   !.hasNewCommandToProcess = TRUE,
                   !.response = <<>>]
    ELSE IF commandString = HomeText
    THEN [b EXCEPT !.mostRecentCommandReceived =
                       [BLECommand EXCEPT !.commandType = "HOME"],
                   !.hasNewCommandToProcess = TRUE,
                   !.response = <<>>]
    ELSE [b EXCEPT !.mostRecentCommandReceived = BLECommand,
                   !.response =
                       IF b.isDeviceCurrentlyConnectedViaBluetooth
                       THEN ErrorResponse(UnknownCommandText \o commandString)
                       ELSE <<>>]

\* the command lines written to the characteristic
CommandLines ==
    {DispensePrefix \o <<"3", ":", "2">>,
     DispensePrefix \o <<"3">>,
     DispensePrefix \o <<"1", "2">>,
     DispensePrefix,
     DispensePrefix \o <<"4", ":", "x">>,
     DispensePrefix \o <<"2", ":", "-", "4">>,
     DispensePrefix \o <<"5", ":", "0">>,
     DispensePrefix \o <<"1", ":">>,
     DispensePrefix \o <<":", "2">>,
     DispensePrefix \o <<"-", "2", ":", " ", "3", "x">>,
     DispensePrefix \o <<"a", "b", "c">>,
     StatusText, ResetText, HomeText,
     <<"s", "t", "a", "t", "u", "s">>,
     HomeText \o <<" ">>,
     <<"X">> \o DispensePrefix \o <<"1">>,
     <<"D", "I", "S", "P", "E", "N", "S", "E">>,
     <<"D", "I", "S", "P", "E", "N", "S", "E", " ", "3">>,
     <<"?">>}

\* BLEManager after construction and initializeBLEServerAndStartAdvertising
NoParser ==
    [hasNewCommandToProcess |-> FALSE,
     mostRecentCommandReceived |-> BLECommand,
     isDeviceCurrentlyConnectedViaBluetooth |-> FALSE,
     callback |-> "none", commandString |-> <<>>, response |-> <<>>,
     loop |-> "poll", command |-> BLECommand]

\* BLEConnectionCallbacks::onConnect
OnConnect ==
    /\ ble.callback = "none"
    /\ ~ble.isDeviceCurrentlyConnectedViaBluetooth
    /\ ble' = [ble EXCEPT !.isDeviceCurrentlyConnectedViaBluetooth = TRUE]
    /\ UNCHANGED engine

\* BLEConnectionCallbacks::onDisconnect
OnDisconnect ==
    /\ ble.callback = "none"
    /\ ble.isDeviceCurrentlyConnectedViaBluetooth
    /\ ble' = [ble EXCEPT !.isDeviceCurrentlyConnectedViaBluetooth = FALSE]
    /\ UNCHANGED engine

\* onWrite: a connected device writes a non-empty value
OnWrite ==
    /\ ble.callback = "none"
    /\ ble.isDeviceCurrentlyConnectedViaBluetooth
    /\ \E receivedValue \in CommandLines :
          /\ Len(receivedValue) > 0
          /\ ble' = [ble EXCEPT !.callback = "parse",
                                !.commandString = receivedValue]
    /\ UNCHANGED engine

\* onWrite: the value is parsed and the callback returns
ParseCommand ==
    /\ ble.callback = "parse"
    /\ ble' = [parseBLECommandAndExtractParameters(ble, ble.commandString)
                  EXCEPT !.callback = "none"]
    /\ UNCHANGED engine

\* the main loop finds the flag set and takes the command with
\* getAndClearMostRecentCommand
TakeCommand ==
    /\ ble.hasNewCommandToProcess
    /\ ble' = [ble EXCEPT !.hasNewCommandToProcess = FALSE,
                          !.command = ble.mostRecentCommandReceived]
    /\ UNCHANGED engine

InitParse ==
    /\ cfg \in Configurations
    /\ isSystemHomedAndReady = FALSE
    /\ currentCompartmentNumber = 0
    /\ currentPositionSteps = 0
    /\ dispensedCountForEachCompartment = ZeroCounts
    /\ pc = "idle"
    /\ call = NoCall
    /\ hm = NoHoming
    /\ mv = NoMove
    /\ dp = NoDispense
    /\ irSamples = <<>>
    /\ pillCount = 0
    /\ trayPulsesSinceReset = 0
    /\ actuated = FALSE
    /\ entryCounts = ZeroCounts
    /\ tray = FreeSwitch
    /\ hw = InitialHardware
    /\ ble = NoParser

NextParse ==
    \/ OnConnect
    \/ OnDisconnect
    \/ OnWrite
    \/ ParseCommand
    \/ TakeCommand

SpecParse == InitParse /\ [][NextParse]_vars

(***************************************************************************)
(* Servo travel: one call of moveServoToMicroseconds, write by write       *)
(***************************************************************************)
\* the step size of the servo movement
servoStepMicroseconds == 60

\* values of servoStepMicroseconds (an int field)
StepSizesUnderTest == {-60, 0, 13, servoStepMicroseconds, 700, 5000}

\* values of the targetMicroseconds argument
ServoTargetsUnderTest ==
    {-10, 0, servoMinMicroseconds, 151, 1000, servoMaxMicroseconds, 2101, 5000}

\* values readMicroseconds() returns when the call is entered
ServoReadingsUnderTest ==
    {-1, 100, servoMinMicroseconds, 700, 1130, servoMaxMicroseconds, 2500}

\* while ((step > 0 && us < target) || (step < 0 && us > target))
ServoLoopContinues(step, us, target) ==
    (step > 0 /\ us < target) \/ (step < 0 /\ us > target)

\* the call is entered: the target is constrained to the safe range
ServoClampTarget ==
    /\ hw.phase = "entry"
    /\ hw' = [hw EXCEPT !.targetMicroseconds = moveServoToMicroseconds(hw.requested),
                        !.phase = "read"]
    /\ UNCHANGED <<cfg, tray, ble, ctrl, pc, call, hm, mv, dp, irSamples,
                   pillCount, trayPulsesSinceReset, actuated, entryCounts>>

\* the current position is read; a reading outside the safe range is
\* replaced by the minimum, which is written; step gets its direction
ServoReadCurrent ==
    /\ hw.phase = "read"
    /\ LET outside == hw.servo < getServoMinSafe \/ hw.servo > getServoMaxSafe
           current == IF outside THEN getServoMinSafe ELSE hw.servo
       IN  hw' = [hw EXCEPT
                     !.servo = current,
                     !.lastWritten = IF outside THEN current ELSE @,
                     !.writes = IF outside THEN @ + 1 ELSE @,
                     !.us = current,
                     !.step = IF hw.targetMicroseconds >= current
                              THEN hw.servoStepMicroseconds
                              ELSE 0 - hw.servoStepMicroseconds,
                     !.phase = "loop"]
    /\ UNCHANGED <<cfg, tray, ble, ctrl, pc, call, hm, mv, dp, irSamples,
                   pillCount, trayPulsesSinceReset, actuated, entryCounts>>

\* one pass of the loop: us is written; the loop is left by break when the
\* next position would pass the target
ServoLoopWrite ==
    /\ hw.phase = "loop"
    /\ ServoLoopContinues(hw.step, hw.us, hw.targetMicroseconds)
    /\ LET nextUs == hw.us + hw.step
           overshoot ==
               \/ hw.step > 0 /\ nextUs > hw.targetMicroseconds
               \/ hw.step < 0 /\ nextUs < hw.targetMicroseconds
       IN  hw' = [hw EXCEPT !.servo = hw.us,
                            !.lastWritten = hw.us,
                            !.writes = @ + 1,
                            !.passes = @ + 1,
                            !.us = IF overshoot THEN @ ELSE nextUs,
                            !.phase = IF overshoot THEN "final" ELSE "loop"]
    /\ UNCHANGED <<cfg, tray, ble, ctrl, pc, call, hm, mv, dp, irSamples,
                   pillCount, trayPulsesSinceReset, actuated, entryCounts>>

\* the loop condition is false
ServoLoopExit ==
    /\ hw.phase = "loop"
    /\ ~ServoLoopContinues(hw.step, hw.us, hw.targetMicroseconds)
    /\ hw' = [hw EXCEPT !.phase = "final"]
    /\ UNCHANGED <<cfg, tray, ble, ctrl, pc, call, hm, mv, dp, irSamples,
                   pillCount, trayPulsesSinceReset, actuated, entryCounts>>

\* the target is written last and the call returns
ServoFinalWrite ==
    /\ hw.phase = "final"
    /\ hw' = [hw EXCEPT !.servo = hw.targetMicroseconds,
                        !.lastWritten = hw.targetMicroseconds,
                        !.writes = @ + 1,
                        !.phase = "returned"]
    /\ UNCHANGED <<cfg, tray, ble, ctrl, pc, call, hm, mv, dp, irSamples,
                   pillCount, trayPulsesSinceReset, actuated, entryCounts>>

InitServo ==
    /\ cfg \in Configurations
    /\ isSystemHomedAndReady = FALSE
    /\ currentCompartmentNumber = 0
    /\ currentPositionSteps = 0
    /\ dispensedCountForEachCompartment = ZeroCounts
    /\ pc = "idle"
    /\ call = NoCall
    /\ hm = NoHoming
    /\ mv = NoMove
    /\ dp = NoDispense
    /\ irSamples = <<>>
    /\ pillCount = 0
    /\ trayPulsesSinceReset = 0
    /\ actuated = FALSE
    /\ entryCounts = ZeroCounts
    /\ tray = FreeSwitch
    /\ ble = NoBLE
    /\ \E requested \in ServoTargetsUnderTest, reading \in ServoReadingsUnderTest,
          stepSize \in StepSizesUnderTest :
          hw = [servo |-> reading, isElectromagnetCurrentlyActivated |-> FALSE,
                requested |-> requested, servoStepMicroseconds |-> stepSize,
                entryReading |-> reading, targetMicroseconds |-> 0, us |-> 0,
                step |-> 0, lastWritten |-> getServoMinSafe, writes |-> 0,
                passes |-> 0, phase |-> "entry"]

NextServo ==
    \/ ServoClampTarget
    \/ ServoReadCurrent
    \/ ServoLoopWrite
    \/ ServoLoopExit
    \/ ServoFinalWrite

SpecServo == InitServo /\ [][NextServo]_vars

(***************************************************************************)
(* The boolean single-pill variant (Pill_Dispenser_ESP32): the loop of     *)
(* dispensePillsFromCompartment after the move to a valid compartment has  *)
(* returned true, attemptToDispenseSinglePillWithRetries and               *)
(* waitForPillDetectionWithTimeout                                         *)
(***************************************************************************)
servoRestPositionAngleInDegrees == 0
servoDispensingAngleInDegrees == 180

\* the polling loop of waitForPillDetectionWithTimeout: samples[i] is what
\* the i-th read of the sensor inside the timeout returns
RECURSIVE PollUntilDetected(_, _)
PollUntilDetected(samples, i) ==
    IF i > Len(samples) THEN FALSE
    ELSE IF samples[i] THEN TRUE
    ELSE PollUntilDetected(samples, i + 1)

\* a wait that needs the sensor to go from inactive to active
waitForPillDetectionWithTimeout_RisingEdge(samples) ==
    CountRisingEdges(samples) > 0

\* SensorManager::waitForPillDetectionWithTimeout
waitForPillDetectionWithTimeout(samples) == PollUntilDetected(samples, 1)

\* the locals of the two routines
\*   pillDetected   what attemptToDispenseSinglePillWithRetries returns
\*   anyActive      the sensor was active at some poll time of a window of
\*                  the invocation
\*   cycles         pick/drop cycles of the invocation
NoSinglePill ==
    [pillNumber |-> 0, successfulDispenseCount |-> 0, attemptNumber |-> 0,
     pillDetected |-> FALSE, invocations |-> 0, anyActive |-> FALSE,
     cycles |-> 0]

\* the loop of dispensePillsFromCompartment invokes the single-pill routine
SinglePillInvoke ==
    /\ pc = "dispense_loop"
    /\ DispenseLoopContinues(dp.pillNumber, call.count)
    /\ dp' = [dp EXCEPT !.attemptNumber = 1, !.pillDetected = FALSE,
                        !.invocations = @ + 1, !.anyActive = FALSE,
                        !.cycles = 0]
    /\ pc' = "cycle_start"
    /\ UNCHANGED <<cfg, hw, tray, ble, ctrl, call, hm, mv, irSamples, pillCount,
                   trayPulsesSinceReset, actuated, entryCounts>>

\* a cycle starts: electromagnet on, servo to the dispensing position; the
\* environment fixes what the IR sensor will read during the timeout
SinglePillCycleStart ==
    /\ pc = "cycle_start"
    /\ CycleLoopContinues(dp.attemptNumber)
    /\ \E samples \in AllWindows(MaxSamples) :
          /\ irSamples' = samples
          /\ dp' = [dp EXCEPT !.cycles = @ + 1,
                              !.anyActive =
                                  @ \/ (\E i \in DOMAIN samples : samples[i])]
    /\ hw' = [hw EXCEPT !.isElectromagnetCurrentlyActivated = TRUE,
                        !.servo = servoDispensingAngleInDegrees]
    /\ actuated' = TRUE
    /\ pc' = "cycle_window"
    /\ UNCHANGED <<cfg, tray, ble, ctrl, call, hm, mv, pillCount,
                   trayPulsesSinceReset, entryCounts>>

\* the wait for the pill, then servo to rest and electromagnet off; the
\* routine returns true when the pill was detected, else the next attempt
SinglePillCycleEnd ==
    /\ pc = "cycle_window"
    /\ LET pillDetected == waitForPillDetectionWithTimeout(irSamples)
       IN  IF pillDetected
           THEN /\ dp' = [dp EXCEPT !.pillDetected = TRUE]
                /\ pc' = "dispense_accumulate"
           ELSE /\ dp' = [dp EXCEPT !.attemptNumber = @ + 1]
                /\ pc' = "cycle_start"
    /\ hw' = [hw EXCEPT !.isElectromagnetCurrentlyActivated =
                            deactivateElectromagnetToReleasePill,
                        !.servo = servoRestPositionAngleInDegrees]
    /\ irSamples' = <<>>
    /\ UNCHANGED <<cfg, tray, ble, ctrl, call, hm, mv, pillCount,
                   trayPulsesSinceReset, actuated, entryCounts>>

\* all attempts failed: the routine returns false
SinglePillExhausted ==
    /\ pc = "cycle_start"
    /\ ~CycleLoopContinues(dp.attemptNumber)
    /\ dp' = [dp EXCEPT !.pillDetected = FALSE]
    /\ pc' = "dispense_accumulate"
    /\ UNCHANGED <<cfg, hw, tray, ble, ctrl, call, hm, mv, irSamples, pillCount,
                   trayPulsesSinceReset, actuated, entryCounts>>

\* if (attemptToDispenseSinglePillWithRetries()): count and statistics
SinglePillAccumulate ==
    /\ pc = "dispense_accumulate"
    /\ dp' = [dp EXCEPT !.successfulDispenseCount =
                            IF dp.pillDetected THEN @ + 1 ELSE @,
                        !.pillNumber = @ + 1]
    /\ dispensedCountForEachCompartment' =
           IF dp.pillDetected
           THEN CountersAfterDetection(call.compartment, 1)
           ELSE dispensedCountForEachCompartment
    /\ pc' = "dispense_loop"
    /\ UNCHANGED <<cfg, hw, tray, ble, isSystemHomedAndReady, currentCompartmentNumber,
                   currentPositionSteps, call, hm, mv, irSamples, pillCount,
                   trayPulsesSinceReset, actuated, entryCounts>>

\* after the loop successfulDispenseCount is returned; the homing run that
\* may precede the return changes neither it nor the statistics
SinglePillDispenseReturn ==
    /\ pc = "dispense_loop"
    /\ ~DispenseLoopContinues(dp.pillNumber, call.count)
    /\ call' = [call EXCEPT !.retInt = dp.successfulDispenseCount]
    /\ pc' = "done"
    /\ UNCHANGED <<cfg, hw, tray, ble, ctrl, hm, mv, dp, irSamples, pillCount,
                   trayPulsesSinceReset, actuated, entryCounts>>

\* dispensePillsFromCompartment(c, n) with valid c, the move to c has
\* returned true
InitSinglePill ==
    /\ cfg \in Configurations
    /\ isSystemHomedAndReady = TRUE
    /\ \E compartmentNumber \in Compartments,
          numberOfPillsToDispense \in 0..MaxPillsRequested :
          /\ call = [NoCall EXCEPT !.name = "dispense",
                                   !.compartment = compartmentNumber,
                                   !.count = numberOfPillsToDispense,
                                   !.homedAtEntry = TRUE]
          /\ currentCompartmentNumber = compartmentNumber
          /\ currentPositionSteps = compartmentStepPositions[compartmentNumber]
    /\ trayPulsesSinceReset = currentPositionSteps
    /\ dispensedCountForEachCompartment = ZeroCounts
    /\ pc = "dispense_loop"
    /\ hm = NoHoming
    /\ mv = [NoMove EXCEPT !.result = TRUE]
    /\ dp = NoSinglePill
    /\ irSamples = <<>>
    /\ pillCount = 0
    /\ actuated = TRUE
    /\ entryCounts = ZeroCounts
    /\ tray = FreeSwitch
    /\ hw = [servo |-> servoRestPositionAngleInDegrees,
             isElectromagnetCurrentlyActivated |-> FALSE]
    /\ ble = NoBLE

NextSinglePill ==
    \/ SinglePillInvoke
    \/ SinglePillCycleStart
    \/ SinglePillCycleEnd
    \/ SinglePillExhausted
    \/ SinglePillAccumulate
    \/ SinglePillDispenseReturn

SpecSinglePill == InitSinglePill /\ [][NextSinglePill]_vars

(***************************************************************************)
(* Connection state: onConnect and onDisconnect run on the BLE task and    *)
(* write isDeviceCurrentlyConnectedViaBluetooth; the main loop calls       *)
(* updateConnectionStateInMainLoop, whose reads and writes of the plain    *)
(* members interleave with the callbacks statement by statement            *)
(***************************************************************************)
\* BLEManager after construction and initializeBluetoothLEServer: nobody
\* connected, advertising.
\*   loop          the statement of updateConnectionStateInMainLoop the main
\*                 loop stands before
\*   connects      calls of onConnect so far
\*   disconnects   calls of onDisconnect so far
\*   restarts      calls of startAdvertising by the main loop so far
\*   unanswered    a disconnect has happened and startAdvertising has not
\*                 been called since
\*   advertising   the server advertises: a client connects only while it
\*                 does, and the stack stops advertising when one connects
NoConnection ==
    [isDeviceCurrentlyConnectedViaBluetooth |-> FALSE,
     wasDeviceConnectedInPreviousLoop |-> FALSE,
     loop |-> "test_disconnected",
     connects |-> 0, disconnects |-> 0, restarts |-> 0, unanswered |-> FALSE,
     advertising |-> TRUE]

\* BLEConnectionCallbacks::onConnect
ConnectionEstablished ==
    /\ ~ble.isDeviceCurrentlyConnectedViaBluetooth
    /\ ble.advertising
    /\ ble.connects < MaxDisconnects
    /\ ble' = [ble EXCEPT !.isDeviceCurrentlyConnectedViaBluetooth = TRUE,
                          !.advertising = FALSE,
                          !.connects = @ + 1]
    /\ UNCHANGED engine

\* BLEConnectionCallbacks::onDisconnect
ConnectionLost ==
    /\ ble.isDeviceCurrentlyConnectedViaBluetooth
    /\ ble' = [ble EXCEPT !.isDeviceCurrentlyConnectedViaBluetooth = FALSE,
                          !.disconnects = @ + 1,
                          !.unanswered = TRUE]
    /\ UNCHANGED engine

\* if (!isDeviceCurrentlyConnectedViaBluetooth && wasDeviceConnectedInPreviousLoop)
DisconnectDetected ==
    /\ ~ble.isDeviceCurrentlyConnectedViaBluetooth
    /\ ble.wasDeviceConnectedInPreviousLoop

\* the first test of updateConnectionStateInMainLoop
UpdateTestDisconnected ==
    /\ ble.loop = "test_disconnected"
    /\ ble' = [ble EXCEPT !.loop = IF DisconnectDetected
                                   THEN "restart"
                                   ELSE "test_connected"]
    /\ UNCHANGED engine

\* delay(bleReconnectionDelayMilliseconds); startAdvertising()
UpdateRestartAdvertising ==
    /\ ble.loop = "restart"
    /\ ble' = [ble EXCEPT !.restarts = @ + 1,
                          !.unanswered = FALSE,
                          !.advertising = TRUE,
                          !.loop = "store_disconnected"]
    /\ UNCHANGED engine

\* wasDeviceConnectedInPreviousLoop = isDeviceCurrentlyConnectedViaBluetooth
\* after the restart
UpdateStoreAfterRestart ==
    /\ ble.loop = "store_disconnected"
    /\ ble' = [ble EXCEPT !.wasDeviceConnectedInPreviousLoop =
                              ble.isDeviceCurrentlyConnectedViaBluetooth,
                          !.loop = "test_connected"]
    /\ UNCHANGED engine

\* if (isDeviceCurrentlyConnectedViaBluetooth && !wasDeviceConnectedInPreviousLoop);
\* when it fails the function returns and the main loop calls it again
UpdateTestConnected ==
    /\ ble.loop = "test_connected"
    /\ ble' = [ble EXCEPT !.loop =
                  IF ble.isDeviceCurrentlyConnectedViaBluetooth
                         /\ ~ble.wasDeviceConnectedInPreviousLoop
                  THEN "store_connected"
                  ELSE "test_disconnected"]
    /\ UNCHANGED engine

\* wasDeviceConnectedInPreviousLoop = isDeviceCurrentlyConnectedViaBluetooth
\* after a new connection was seen; the function returns
UpdateStoreConnected ==
    /\ ble.loop = "store_connected"
    /\ ble' = [ble EXCEPT !.wasDeviceConnectedInPreviousLoop =
                              ble.isDeviceCurrentlyConnectedViaBluetooth,
                          !.loop = "test_disconnected"]
    /\ UNCHANGED engine

\* the statements of updateConnectionStateInMainLoop, called in every pass
\* of the main loop
UpdateConnectionStateInMainLoop ==
    \/ UpdateTestDisconnected
    \/ UpdateRestartAdvertising
    \/ UpdateStoreAfterRestart
    \/ UpdateTestConnected
    \/ UpdateStoreConnected

InitConnection ==
    /\ cfg \in Configurations
    /\ isSystemHomedAndReady = FALSE
    /\ currentCompartmentNumber = 0
    /\ currentPositionSteps = 0
    /\ dispensedCountForEachCompartment = ZeroCounts
    /\ pc = "idle"
    /\ call = NoCall
    /\ hm = NoHoming
    /\ mv = NoMove
    /\ dp = NoDispense
    /\ irSamples = <<>>
    /\ pillCount = 0
    /\ trayPulsesSinceReset = 0
    /\ actuated = FALSE
    /\ entryCounts = ZeroCounts
    /\ tray = FreeSwitch
    /\ hw = InitialHardware
    /\ ble = NoConnection

NextConnection ==
    \/ ConnectionEstablished
    \/ ConnectionLost
    \/ UpdateTestDisconnected
    \/ UpdateRestartAdvertising
    \/ UpdateStoreAfterRestart
    \/ UpdateTestConnected
    \/ UpdateStoreConnected

\* the main loop keeps running; connections come and go as the client likes
SpecConnection ==
    InitConnection /\ [][NextConnection]_vars
        /\ WF_vars(UpdateConnectionStateInMainLoop)

(***************************************************************************)
(* Homing and dispense calls under a running processor: a call that has    *)
(* started keeps executing, every loop pass and delay takes its time and   *)
(* ends                                                                    *)
(***************************************************************************)
\* the steps of a call in progress, from its first statement to its return
CallInProgress ==
    \/ HomingShortCircuit
    \/ HomingAttemptStart
    \/ HomingSeekFound
    \/ HomingSeekFailed
    \/ HomingExhausted
    \/ HomingReturn
    \/ EnsureSystemIsHomed
    \/ MoveRejectInvalid
    \/ MoveAlreadyThere
    \/ MoveWithinTolerance
    \/ MovePlan
    \/ MoveIssueSteps
    \/ MoveReturn
    \/ DispenseNextPill
    \/ CycleStart
    \/ CycleServoToMax
    \/ DetectionWindow
    \/ CycleServoReturn
    \/ CycleEnd
    \/ CycleExhausted
    \/ DispenseAccumulate
    \/ DispenseAutoHome
    \/ DispenseReturn

\* the main loop is idle: after construction, or homed with the tray at home
\* or at a compartment it was moved to
InitTermination ==
    /\ cfg \in Configurations
    /\ \E k \in 0..numberOfCompartmentsInDispenser, homed \in BOOLEAN :
          /\ ~homed => k = 0
          /\ isSystemHomedAndReady = homed
          /\ currentCompartmentNumber = k
          /\ currentPositionSteps = IF k = 0 THEN 0 ELSE compartmentStepPositions[k]
          /\ trayPulsesSinceReset = currentPositionSteps
    /\ dispensedCountForEachCompartment = ZeroCounts
    /\ pc = "idle"
    /\ call = NoCall
    /\ hm = NoHoming
    /\ mv = NoMove
    /\ dp = NoDispense
    /\ irSamples = <<>>
    /\ pillCount = 0
    /\ actuated = FALSE
    /\ entryCounts = ZeroCounts
    /\ tray = FreeSwitch
    /\ hw = InitialHardware
    /\ ble = NoBLE

\* one call of the main loop, followed to its return
NextTermination ==
    \/ CallHome
    \/ CallMove
    \/ CallDispense
    \/ CallInProgress

SpecTermination ==
    InitTermination /\ [][NextTermination]_vars /\ WF_vars(CallInProgress)

(***************************************************************************)
(* Properties                                                              *)
(***************************************************************************)
DispenseDone == pc = "done" /\ call.name = "dispense"

\* C1: dispensePillsFromCompartment(c, n) with c outside [1, N] returns 0,
\* and no step of the call issues a stepper, servo or electromagnet command
\* or changes isSystemHomedAndReady, currentCompartmentNumber,
\* currentPositionSteps or a dispense counter, homed or not homed on entry.
C1_InvalidCompartmentHasNoEffect ==
    [][(call.name = "dispense" /\ ~IsValidCompartment(call.compartment))
          => /\ UNCHANGED ctrl
             /\ ~actuated'
             /\ (pc' = "done" => call'.retInt = 0)]_vars

\* C2: compartment-positioning steps are issued only while
\* isSystemHomedAndReady is true.
C2_PositioningOnlyWhenHomed ==
    pc = "move_step" => isSystemHomedAndReady

\* C3: the step delta computed for a valid target (and then issued to the
\* stepper) has absolute value at most totalStepsPerRevolution / 2.
C3_ShortestPath ==
    2 * Abs(mv.stepsToMove) <= totalStepsPerRevolution

\* C4: whenever the homing run returns true, currentPositionSteps = 0,
\* currentCompartmentNumber = 0 and isSystemHomedAndReady holds; and every
\* step that turns isSystemHomedAndReady from false to true sets
\* currentPositionSteps to 0.
C4_HomingSuccessZeroesPosition ==
    /\ [](pc = "homing_return" /\ hm.result
            => /\ currentPositionSteps = 0
               /\ currentCompartmentNumber = 0
               /\ isSystemHomedAndReady)
    /\ [][~isSystemHomedAndReady /\ isSystemHomedAndReady'
            => currentPositionSteps' = 0]_vars

\* C4 witness: the auto-rehome after a dispense at compartment 3 succeeded,
\* so the run started away from position 0 with a non-zero label.
C4_Witness ==
    /\ pc = "homing_return"
    /\ hm.result
    /\ hm.caller = "auto"
    /\ call.compartment = 3
    /\ currentPositionSteps = 0
    /\ currentCompartmentNumber = 0

\* C5: when no read of the home switch is active during a homing run, the
\* run makes exactly homingRetryAttempts seek attempts and returns false
\* with isSystemHomedAndReady = false, also when it was homed before.
C5_SwitchNeverActivates ==
    (pc = "homing_return" /\ ~hm.sawActive)
        => /\ hm.seekAttempts = cfg.homingRetryAttempts
           /\ ~hm.result
           /\ ~isSystemHomedAndReady

\* C5 witness: a run entered homed, two seek attempts, switch never active.
C5_Witness ==
    /\ pc = "homing_return"
    /\ ~hm.sawActive
    /\ hm.entryHomed
    /\ hm.seekAttempts = 2
    /\ ~isSystemHomedAndReady

\* C6: between calls, currentPositionSteps equals the net signed number of
\* tray step pulses issued since the position was last reset to home.
C6_PositionEqualsNetPulses ==
    pc = "idle" => currentPositionSteps = trayPulsesSinceReset

\* C7: for a valid compartment and n >= 1 the single-pill routine is invoked
\* exactly n times and the call returns the sum of the detected counts.
C7_InvokesExactlyRequestedCount ==
    (DispenseDone /\ IsValidCompartment(call.compartment))
        => /\ dp.invocations = call.count
           /\ call.retInt = dp.sumDetected

\* C7 witness: 2 of 2 from compartment 3.
C7_Witness ==
    /\ DispenseDone
    /\ call.compartment = 3
    /\ call.count = 2
    /\ dp.invocations = 2
    /\ call.retInt = 2

\* C8: a dispense call with valid c increases the counter of c by exactly
\* the value it returns and leaves every other counter unchanged.
C8_CounterIncreasesByResult ==
    (DispenseDone /\ IsValidCompartment(call.compartment))
        => dispensedCountForEachCompartment =
               [entryCounts EXCEPT ![call.compartment] = @ + call.retInt]

\* C8 witness: two pills counted at compartment 5 in one call.
C8_Witness ==
    /\ DispenseDone
    /\ call.compartment = 5
    /\ call.retInt = 2
    /\ dispensedCountForEachCompartment[5] = entryCounts[5] + 2

\* the adjacent sample pairs (inactive, active) of a window
RisingEdges(samples) ==
    {i \in 1..(Len(samples) - 1) : ~samples[i] /\ samples[i + 1]}

\* C9: the pill count of a detection window is the number of adjacent sample
\* pairs (inactive, active); [0,0,1,1,0,1,0] counts 2 and a sensor that is
\* active for the whole window counts 0.
C9_CountsRisingEdges ==
    pc = "cycle_end"
        => /\ pillCount = Cardinality(RisingEdges(irSamples))
           /\ (irSamples = <<FALSE, FALSE, TRUE, TRUE, FALSE, TRUE, FALSE>>
                  => pillCount = 2)
           /\ ((\A i \in 1..Len(irSamples) : irSamples[i]) => pillCount = 0)

\* C9 witness: the window [0,0,1,1,0,1,0] has been counted.
C9_Witness ==
    /\ pc = "cycle_end"
    /\ irSamples = <<FALSE, FALSE, TRUE, TRUE, FALSE, TRUE, FALSE>>
    /\ pillCount = 2

\* C10: one invocation of the single-pill routine runs at most
\* maximumDispenseAttempts cycles, stops at the first cycle with a positive
\* edge count and returns it, and returns 0 exactly when all
\* maximumDispenseAttempts cycles counted zero.
C10_BoundedCyclesFirstPositive ==
    pc = "dispense_accumulate"
        => LET counts == dp.cycleCounts
               n == Len(counts)
           IN  /\ n >= 1
               /\ n <= maximumDispenseAttempts
               /\ \A i \in 1..(n - 1) : counts[i] = 0
               /\ dp.pillsDetected = counts[n]
               /\ (dp.pillsDetected = 0 <=> n = maximumDispenseAttempts /\ counts[n] = 0)

\* C10 witness: the second cycle counted two edges after an empty first one.
C10_Witness ==
    /\ pc = "dispense_accumulate"
    /\ dp.cycleCounts = <<0, 2>>
    /\ dp.pillsDetected = 2

\* C11: after the dispense loop of dispensePillsFromCompartment a homing run
\* is started if and only if autoHomeAfterDispense is true and at least one
\* pill was detected; otherwise no homing run follows, the call returns and
\* the tray stays at the compartment.
C11_AutoHomeIffEnabledAndDetected ==
    /\ [][(pc = "dispense_loop" /\ ~(dp.pillNumber < call.count))
            => /\ (pc' = "homing_loop"
                      <=> (cfg.autoHomeAfterDispense /\ dp.totalPillsDetected > 0))
               /\ (pc' # "homing_loop"
                      => /\ pc' = "done"
                         /\ UNCHANGED <<currentPositionSteps,
                                        currentCompartmentNumber,
                                        trayPulsesSinceReset>>)]_vars
    /\ []((DispenseDone /\ IsValidCompartment(call.compartment)
              /\ hm.caller # "auto")
            => currentCompartmentNumber = call.compartment)

\* C11 witness: auto-rehome enabled, two invocations detected nothing, the
\* call returned without a homing run and the tray is still at compartment 3.
C11_Witness ==
    /\ DispenseDone
    /\ cfg.autoHomeAfterDispense
    /\ call.compartment = 3
    /\ dp.invocations = 2
    /\ call.retInt = 0
    /\ hm.caller # "auto"
    /\ currentCompartmentNumber = 3

\* C12: if the auto-rehome run at the end of dispensePillsFromCompartment
\* fails, the call still returns the number of pills detected, the counter
\* of the compartment keeps its increments and isSystemHomedAndReady is
\* false when the call returns.
C12_FailedAutoHomeKeepsResult ==
    (DispenseDone /\ hm.caller = "auto" /\ ~hm.result)
        => /\ call.retInt = dp.totalPillsDetected
           /\ call.retInt > 0
           /\ dispensedCountForEachCompartment =
                  [entryCounts EXCEPT ![call.compartment] = @ + call.retInt]
           /\ ~isSystemHomedAndReady

\* C12 witness: two pills counted at compartment 3, then the auto-rehome
\* run, entered homed, exhausted its attempts.
C12_Witness ==
    /\ DispenseDone
    /\ hm.caller = "auto"
    /\ hm.entryHomed
    /\ ~hm.result
    /\ call.compartment = 3
    /\ call.retInt = 2
    /\ dispensedCountForEachCompartment[3] = entryCounts[3] + 2
    /\ ~isSystemHomedAndReady

\* C13: if the homing run that dispensePillsFromCompartment triggers before
\* moving exhausts all attempts, the request issues no compartment move and
\* runs no pick/drop cycle, changes no dispense counter and returns 0.
C13_HomingFailureIsTerminal ==
    (/\ call.name = "dispense"
     /\ hm.caller = "ensure"
     /\ ~hm.result
     /\ pc \notin {"homing_loop", "homing_seek", "homing_return"})
        => /\ pc \notin {"move_step", "dispense_loop", "cycle_start",
                         "cycle_lift", "cycle_window", "cycle_end",
                         "cycle_release", "dispense_accumulate"}
           /\ dispensedCountForEachCompartment = entryCounts
           /\ (pc = "done" => call.retInt = 0)

\* C14: in a call of moveRotaryDispenserToCompartmentNumber or
\* dispensePillsFromCompartment entered with isSystemHomedAndReady = false,
\* ensureSystemIsHomed starts a homing run, and the call reaches the
\* validation and the compartment-positioning step only after that run.
C14_HomingBeforePositioning ==
    /\ [][(pc = "move_ensure" /\ ~isSystemHomedAndReady)
            => (pc' = "homing_loop" /\ hm'.caller = "ensure")]_vars
    /\ []((pc \in {"move_validate", "move_step"} /\ ~call.homedAtEntry)
            => hm.caller = "ensure")

\* C14 witness: a dispense call entered not homed with the label still 3
\* (an earlier homing run failed there) is in the first attempt of the
\* homing run started by ensureSystemIsHomed, before any positioning step.
C14_Witness ==
    /\ pc = "homing_loop"
    /\ call.name = "dispense"
    /\ ~call.homedAtEntry
    /\ hm.caller = "ensure"
    /\ hm.attempt = 1
    /\ currentCompartmentNumber = 3
    /\ ~isSystemHomedAndReady

C16_MoveToCurrentCompartmentIsIdle ==
    [][(call.name = "move" /\ call.atTarget
           /\ IsValidCompartment(call.compartment))
          => UNCHANGED <<currentPositionSteps, trayPulsesSinceReset>>]_vars

\* C16 as amended: the same for the states in which isSystemHomedAndReady
\* is true as well; no stepper or servo command is issued at all.
C16_MoveToCurrentCompartmentIsIdle_WhenHomed ==
    [][(call.name = "move" /\ call.atTarget /\ call.homedAtEntry
           /\ IsValidCompartment(call.compartment))
          => /\ UNCHANGED <<currentPositionSteps, trayPulsesSinceReset,
                            currentCompartmentNumber>>
             /\ ~actuated'
             /\ (pc' = "done" => call'.retBool)]_vars

\* C16 witness: homed at compartment 3, position 80; the move to 3 returned
\* true without a command to the stepper.
C16_Witness ==
    /\ pc = "done"
    /\ call.name = "move"
    /\ call.compartment = 3
    /\ call.atTarget
    /\ call.homedAtEntry
    /\ call.retBool
    /\ ~actuated
    /\ currentPositionSteps = compartmentStepPositions[3]

\* C17: after a successful homing, a move to any compartment k followed by
\* a move back to compartment 0 (home) returns the tray onto the home
\* switch, so that the following homing run finds the switch active and
\* takes the short-circuit path without a tray step (no missed steps).
C17_RoundTripToCompartmentZero ==
    (pc = "done" /\ call.name = "move" /\ call.compartment = 0
        /\ call.homedAtEntry)
        => tray.offset = 0

\* C17 as amended: the move back is a move to compartment 1, the compartment
\* configured at 0 degrees; when it returns the tray is on the home switch,
\* and a homing run entered there returns true in its first attempt through
\* the short-circuit, the tray where it was.
C17_RoundTripToCompartmentOne ==
    /\ []((pc = "done" /\ call.name = "move" /\ call.compartment = 1
              /\ call.homedAtEntry)
            => /\ call.retBool
               /\ isSystemHomedAndReady
               /\ \E switchActive \in SwitchReadings : switchActive)
    /\ [][(pc = "homing_loop" /\ hm.attempt = 1 /\ isSystemHomedAndReady
              /\ currentCompartmentNumber = 1)
            => /\ pc' = "homing_return"
               /\ hm'.result
               /\ hm'.seekAttempts = 0
               /\ tray' = tray
               /\ currentPositionSteps' = 0]_vars

\* C17 witness: homed, the tray was at compartment 3; the move to
\* compartment 1 stepped 80 steps backward and ended on the switch.
C17_Witness ==
    /\ pc = "done"
    /\ call.name = "move"
    /\ call.compartment = 1
    /\ call.homedAtEntry
    /\ mv.stepsToMove = -compartmentStepPositions[3]
    /\ call.retBool
    /\ tray.offset = 0

\* C18: every per-compartment dispense counter is non-decreasing in every
\* step other than resetAllDispenseStatistics, which sets all N counters to
\* 0 and changes neither isSystemHomedAndReady, currentCompartmentNumber nor
\* currentPositionSteps; getTotalDispenseCount always equals the sum of the
\* N counters.
C18_CountersMonotoneExceptReset ==
    /\ [][IF call'.name = "reset" /\ call.name # "reset"
          THEN /\ \A i \in Compartments :
                      dispensedCountForEachCompartment'[i] = 0
               /\ UNCHANGED <<isSystemHomedAndReady, currentCompartmentNumber,
                              currentPositionSteps>>
          ELSE \A i \in Compartments :
                   dispensedCountForEachCompartment'[i]
                       >= dispensedCountForEachCompartment[i]]_vars
    /\ [](getTotalDispenseCount =
              dispensedCountForEachCompartment[1]
                + dispensedCountForEachCompartment[2]
                + dispensedCountForEachCompartment[3]
                + dispensedCountForEachCompartment[4]
                + dispensedCountForEachCompartment[5])

\* C18 witness: a reset has run with counts at compartments 3 and 5, homed,
\* away from home; all counters are 0 and the position is where it was.
C18_Witness ==
    /\ pc = "done"
    /\ call.name = "reset"
    /\ entryCounts[3] > 0
    /\ entryCounts[5] > 0
    /\ dispensedCountForEachCompartment = ZeroCounts
    /\ isSystemHomedAndReady
    /\ currentCompartmentNumber = 5
    /\ currentPositionSteps # 0

\* C19: with the BLE write callback running asynchronously to the main loop
\* that polls hasNewCommandAvailableToProcess and then calls
\* getAndClearMostRecentCommand, under every interleaving no accepted
\* command is handed to the main loop more than once.
C19_CommandConsumedOnce ==
    \A i, j \in DOMAIN ble.handed :
        i # j => ble.handed[i] # ble.handed[j]

ParseStep == ble.callback = "parse" /\ ble'.callback = "none"

\* C21: parseBLECommandAndExtractParameters maps every line to exactly one
\* outcome: a line that starts with "DISPENSE:" gives a DISPENSE intent,
\* exactly "STATUS", "RESET" and "HOME" give the STATUS, RESET and HOME
\* intents, every other line gives no intent (the flag is not set by it) and
\* the error response "Unknown command: <raw>".
C21_EveryLineHasOneOutcome ==
    [][ParseStep =>
        LET line == ble.commandString
            slot == ble'.mostRecentCommandReceived
            accepted == /\ ble'.hasNewCommandToProcess
                        /\ ble'.response = <<>>
        IN  IF Len(line) >= 9 /\ \A i \in 1..9 : line[i] = DispensePrefix[i]
            THEN slot.commandType = "DISPENSE" /\ accepted
            ELSE IF line = <<"S", "T", "A", "T", "U", "S">>
            THEN slot.commandType = "STATUS" /\ accepted
            ELSE IF line = <<"R", "E", "S", "E", "T">>
            THEN slot.commandType = "RESET" /\ accepted
            ELSE IF line = <<"H", "O", "M", "E">>
            THEN slot.commandType = "HOME" /\ accepted
            ELSE /\ slot.commandType = "NONE"
                 /\ ble'.hasNewCommandToProcess = ble.hasNewCommandToProcess
                 /\ ble'.response = ErrorResponse(UnknownCommandText \o line)
    ]_vars

\* C21 witness: "XDISPENSE:1" was parsed with no command pending: no intent,
\* the flag is down, the error response went out.
C21_Witness ==
    /\ ble.callback = "none"
    /\ ble.commandString = <<"X">> \o DispensePrefix \o <<"1">>
    /\ ble.mostRecentCommandReceived.commandType = "NONE"
    /\ ~ble.hasNewCommandToProcess
    /\ ble.response = ErrorResponse(UnknownCommandText \o ble.commandString)

\* C22: every DISPENSE intent of the parser has pillCount >= 1: 1 when the
\* line has no count field, max(parsed count, 1) when it has one (a count
\* parsed as 0, negative or non-numeric becomes 1); the compartment number
\* is passed through as parsed.
C22_DispenseCountAtLeastOne ==
    [][ParseStep /\ ble'.mostRecentCommandReceived.commandType = "DISPENSE" =>
        LET line == ble.commandString
            slot == ble'.mostRecentCommandReceived
            expected ==
                {<< <<"3", ":", "2">>, 3, 2 >>,
                 << <<"3">>, 3, 1 >>,
                 << <<"1", "2">>, 12, 1 >>,
                 << <<>>, 0, 1 >>,
                 << <<"4", ":", "x">>, 4, 1 >>,
                 << <<"2", ":", "-", "4">>, 2, 1 >>,
                 << <<"5", ":", "0">>, 5, 1 >>,
                 << <<"1", ":">>, 1, 1 >>,
                 << <<":", "2">>, 0, 2 >>,
                 << <<"-", "2", ":", " ", "3", "x">>, -2, 3 >>,
                 << <<"a", "b", "c">>, 0, 1 >>}
        IN  /\ slot.pillCount >= 1
            /\ \E e \in expected :
                  /\ line = DispensePrefix \o e[1]
                  /\ slot.compartmentNumber = e[2]
                  /\ slot.pillCount = e[3]
    ]_vars

\* C22 witness: "DISPENSE:2:-4" was parsed: compartment 2, one pill.
C22_Witness ==
    /\ ble.callback = "none"
    /\ ble.commandString = DispensePrefix \o <<"2", ":", "-", "4">>
    /\ ble.hasNewCommandToProcess
    /\ ble.mostRecentCommandReceived =
           [commandType |-> "DISPENSE", compartmentNumber |-> 2,
            pillCount |-> 1]

\* C24: an unknown command mutates no state: when an unrecognised line is
\* parsed while an accepted command is pending (flag set, not yet taken),
\* the type, compartment number and pill count of the pending command are
\* unchanged.
C24_UnknownCommandKeepsPending ==
    [][ParseStep /\ ble.hasNewCommandToProcess /\ ble'.response # <<>> =>
        ble'.mostRecentCommandReceived = ble.mostRecentCommandReceived]_vars

\* C23: the Dispense Engine clamps pill-count requests below 1 up to 1:
\* dispensePillsFromCompartment(c, n) with valid c and n < 1 performs exactly
\* one single-pill invocation, as the call with n = 1 does.
C23_CountBelowOneRunsOnce ==
    (DispenseDone /\ IsValidCompartment(call.compartment) /\ call.count < 1)
        => dp.invocations = 1

\* C25: entry guard: if the system was previously homed and the home switch
\* reads active when performHomingWithRetryAndEscalation is entered, the call
\* returns success with the tracker zeroed and without a tray step (no
\* backward nudge, no forward seek); if the system was not previously homed
\* the short-circuit is never taken, even with the switch active.
C25_EntryGuard ==
    /\ [][(pc = "homing_loop" /\ hm.attempt = 1 /\ pc' # "homing_loop"
              /\ hm.entryHomed /\ hm'.startActive)
            => /\ pc' = "homing_return"
               /\ hm'.result
               /\ currentPositionSteps' = 0
               /\ currentCompartmentNumber' = 0
               /\ trayPulsesSinceReset' = 0
               /\ hm'.seekAttempts = 0
               /\ hm'.forwardNudges = 0
               /\ isSystemHomedAndReady']_vars
    /\ [][(pc = "homing_loop" /\ ~hm.entryHomed /\ pc' # "homing_loop")
            => \/ pc' = "homing_seek"
               \/ /\ pc' = "homing_return"
                  /\ ~hm'.result
                  /\ hm.attempt > cfg.homingRetryAttempts
                  /\ hm.seekAttempts = cfg.homingRetryAttempts]_vars

\* C25 witness: a homing run entered homed with the switch active has
\* returned from its first attempt without a seek.
C25_Witness ==
    /\ pc = "homing_return"
    /\ hm.entryHomed
    /\ hm.startActive
    /\ hm.attempt = 1
    /\ hm.result
    /\ hm.seekAttempts = 0
    /\ currentPositionSteps = 0
    /\ currentCompartmentNumber = 0

\* C26: when the short-circuit does not apply and the switch is active at the
\* start of a homing attempt, a backward nudge of calculateStepsForAngle(10
\* degrees) = 5 steps is issued before the first forward seek step of the
\* attempt and currentPositionSteps decreases by exactly that number; when
\* the switch is inactive at the start of the attempt no backward nudge is
\* issued.
C26_BackwardNudgeOffSwitch ==
    [][(pc = "homing_loop" /\ pc' = "homing_seek") =>
        /\ hm'.seekAttempts = hm.seekAttempts
        /\ IF hm'.startActive
           THEN /\ currentPositionSteps' = currentPositionSteps - 5
                /\ trayPulsesSinceReset' = trayPulsesSinceReset - 5
           ELSE /\ currentPositionSteps' = currentPositionSteps
                /\ trayPulsesSinceReset' = trayPulsesSinceReset
    ]_vars

\* C26 witness: the first attempt of a run entered not homed at position 0
\* found the switch active and nudged back to -5; the seek has not started.
C26_Witness ==
    /\ pc = "homing_seek"
    /\ hm.startActive
    /\ ~hm.entryHomed
    /\ hm.attempt = 1
    /\ hm.seekAttempts = 0
    /\ currentPositionSteps = -5

\* C27: after every failed attempt of a homing run except the last one,
\* exactly one forward nudge of calculateStepsForAngle(5 degrees) = 2 steps
\* is issued and added to currentPositionSteps before the next attempt, and
\* none follows the last failed attempt: a run in which all k attempts fail
\* issues exactly k-1 forward nudges.
C27_ForwardNudgeBetweenAttempts ==
    /\ [][(pc = "homing_seek" /\ pc' = "homing_loop") =>
            IF hm.attempt < cfg.homingRetryAttempts
            THEN /\ currentPositionSteps' = currentPositionSteps + 2
                 /\ hm'.forwardNudges = hm.forwardNudges + 1
            ELSE /\ currentPositionSteps' = currentPositionSteps
                 /\ hm'.forwardNudges = hm.forwardNudges]_vars
    /\ []((pc = "homing_return" /\ ~hm.result)
            => /\ hm.seekAttempts = cfg.homingRetryAttempts
               /\ hm.forwardNudges = cfg.homingRetryAttempts - 1)

\* C27 witness: both attempts of a run failed with the switch never active:
\* one forward nudge, the tracker at +2.
C27_Witness ==
    /\ pc = "homing_return"
    /\ ~hm.result
    /\ ~hm.sawActive
    /\ cfg.homingRetryAttempts = 2
    /\ hm.seekAttempts = 2
    /\ hm.forwardNudges = 1
    /\ currentPositionSteps = 2

\* C28: escalation schedule: attempt k seeks with timeout baseTimeout +
\* (k-1)*homingTimeoutIncrementPerRetry and step delay clamp(baseDelay -
\* (k-1)*homingDelayDecrementPerRetry, minDelay, baseDelay), and the forward
\* seek steps of attempt k are driven at that delay.
C28_EscalationSchedule ==
    [][(pc = "homing_seek" /\ pc' = "homing_loop"
          /\ cfg.stepperMinStepPulseWidthMicroseconds
                 <= cfg.stepperStepPulseWidthMicroseconds
          /\ cfg.homingDelayDecrementPerRetry >= 0) =>
        LET k == hm.attempt
            baseDelay == 2 * cfg.stepperStepPulseWidthMicroseconds
            minDelay == 2 * cfg.stepperMinStepPulseWidthMicroseconds
            raw == baseDelay - (k - 1) * cfg.homingDelayDecrementPerRetry
        IN  /\ hm.attemptTimeout =
                   10000 + (k - 1) * cfg.homingTimeoutIncrementPerRetry
            /\ hm.attemptDelay = IF raw < minDelay THEN minDelay ELSE raw
            /\ hm'.seekStepDelay = hm.attemptDelay
    ]_vars

\* C29: in every pick/drop cycle of the single-pill routine the order is:
\* electromagnet on, servo to the maximum (release) position, IR detection
\* window, servo returned, electromagnet off; the electromagnet is never
\* switched off before the servo has been returned, on the success path and
\* on the failure path alike, and after the cycle the servo is back at its
\* rest position.
C29_CycleActuationOrder ==
    /\ [][(~hw.isElectromagnetCurrentlyActivated
             /\ hw'.isElectromagnetCurrentlyActivated)
            => /\ pc = "cycle_start"
               /\ hw.servo = 150
               /\ hw'.servo = 150]_vars
    /\ [][(hw.servo = 150 /\ hw'.servo # 150)
            => /\ hw.isElectromagnetCurrentlyActivated
               /\ hw'.isElectromagnetCurrentlyActivated
               /\ hw'.servo = 2100
               /\ pc' = "cycle_window"]_vars
    /\ [](pc = "cycle_window"
            => hw.isElectromagnetCurrentlyActivated /\ hw.servo = 2100)
    /\ [][(hw.servo = 2100 /\ hw'.servo # 2100)
            => /\ pc = "cycle_end"
               /\ hw'.servo = 150
               /\ hw'.isElectromagnetCurrentlyActivated]_vars
    /\ [][(hw.isElectromagnetCurrentlyActivated
             /\ ~hw'.isElectromagnetCurrentlyActivated)
            => /\ pc = "cycle_release"
               /\ hw.servo = 150
               /\ hw'.servo = 150]_vars
    /\ [](~hw.isElectromagnetCurrentlyActivated => hw.servo = 150)
    /\ [](hw.isElectromagnetCurrentlyActivated
            <=> pc \in {"cycle_lift", "cycle_window", "cycle_end",
                        "cycle_release"})

\* C29 witness: the third cycle of an invocation counted nothing; the servo
\* is back at rest and the electromagnet is still on.
C29_Witness ==
    /\ pc = "cycle_release"
    /\ dp.attemptNumber = 3
    /\ pillCount = 0
    /\ hw.servo = 150
    /\ hw.isElectromagnetCurrentlyActivated

\* C30: when the wraparound-corrected delta to a valid target compartment
\* has magnitude below 5 steps, moveRotaryDispenserToCompartmentNumber
\* issues no tray step and leaves currentPositionSteps unchanged, yet sets
\* currentCompartmentNumber to the target and returns true.
C30_WithinToleranceOnlyRelabels ==
    [][(pc = "move_validate"
          /\ call.compartment \in 1..5
          /\ LET raw == 40 * (call.compartment - 1) - currentPositionSteps
                 delta == IF raw > 100 THEN raw - 200
                          ELSE IF raw < -100 THEN raw + 200
                          ELSE raw
             IN  delta > -5 /\ delta < 5)
        => /\ pc' = "move_return"
           /\ mv'.result
           /\ currentCompartmentNumber' = call.compartment
           /\ currentPositionSteps' = currentPositionSteps
           /\ trayPulsesSinceReset' = trayPulsesSinceReset
           /\ tray' = tray]_vars

\* C30 witness: after a failed homing run the label was 0 with the tracker 2
\* steps past the position of compartment 1; the move relabelled the tray
\* without a step.
C30_Witness ==
    /\ pc = "move_return"
    /\ call.compartment = 1
    /\ mv.result
    /\ mv.stepsToMove = -2
    /\ currentPositionSteps = 2
    /\ currentCompartmentNumber = 1
\* C31: travel-range validation: for every requested target and every prior
\* servo position, each position moveServoToMicroseconds writes to the servo
\* lies within [servoMin + margin, servoMax - margin] = [150, 2100], the
\* stepping loop terminates for any configured step size (it makes at most
\* one pass per step that fits into the distance to the target, plus one),
\* and the last position written is the requested target clamped into that
\* range.
C31_ServoWritesStayInRange ==
    /\ hw.lastWritten >= 150
    /\ hw.lastWritten <= 2100
    /\ hw.servoStepMicroseconds <= 0 => hw.passes = 0
    /\ hw.servoStepMicroseconds > 0
          => (hw.passes - 1) * hw.servoStepMicroseconds <= 2100 - 150
    /\ hw.phase = "returned"
          => /\ hw.writes >= 1
             /\ hw.lastWritten = IF hw.requested < 150 THEN 150
                                 ELSE IF hw.requested > 2100 THEN 2100
                                 ELSE hw.requested
             /\ hw.servo = hw.lastWritten

\* C31 witness: from a reading above the range (2500, replaced by 150) to the
\* target 5000 in steps of 13: 150 passes, the last write is 2100.
C31_Witness ==
    /\ hw.phase = "returned"
    /\ hw.entryReading = 2500
    /\ hw.requested = 5000
    /\ hw.servoStepMicroseconds = 13
    /\ hw.passes = 150
    /\ hw.lastWritten = 2100

\* C32: every step of a homing seek is timed with a step delay inside the
\* configured safe range, twice the minimum to twice the maximum pulse width,
\* whatever pulse width is configured
C32_StepPulsesWithinSafeRange ==
    hm.seekStepDelay # 0
        => /\ hm.seekStepDelay >= 2 * cfg.stepperMinStepPulseWidthMicroseconds
           /\ hm.seekStepDelay <= 2 * stepperMaxStepPulseWidthMicroseconds

\* C33: every homing run and every dispense call returns, whatever the switch
\* and the IR sensor read: a run makes at most homingRetryAttempts seeks and a
\* call at most count * maximumDispenseAttempts pick/drop cycles
C33_CallsReturn ==
    /\ [](hm.seekAttempts <= cfg.homingRetryAttempts)
    /\ [](dp.invocations > 0 =>
             (dp.invocations - 1) * maximumDispenseAttempts + Len(dp.cycleCounts)
                 <= call.count * maximumDispenseAttempts)
    /\ (pc \in {"homing_loop", "homing_seek"}) ~> (pc = "homing_return")
    /\ (call.name = "dispense") ~> (call.name = "dispense" /\ pc = "done")
    /\ (call.name = "home") ~> (call.name = "home" /\ pc = "done")

C33_Witness ==
    /\ pc = "done"
    /\ call.name = "dispense"
    /\ call.count = 2
    /\ dp.invocations = 2
    /\ Len(dp.cycleCounts) = maximumDispenseAttempts
    /\ dp.totalPillsDetected > 0
    /\ hm.caller = "auto"
    /\ ~hm.result
    /\ hm.seekAttempts = 2
    /\ cfg.homingRetryAttempts = 2

\* C34: currentCompartmentNumber stays in 0..N; a step changes it only to the
\* validated target when a move completes or to 0 when a homing run resets
\* the position; a reset leaves it 0; the nudges, the failed seeks, the
\* exhausted run and the rejected move leave it as it was
C34_CompartmentLabel ==
    /\ [](currentCompartmentNumber \in 0..numberOfCompartmentsInDispenser)
    /\ [][currentCompartmentNumber' # currentCompartmentNumber
            => \/ /\ pc \in {"move_validate", "move_step"}
                  /\ pc' = "move_return"
                  /\ mv'.result
                  /\ IsValidCompartment(call.compartment)
                  /\ currentCompartmentNumber' = call.compartment
               \/ /\ pc \in {"homing_loop", "homing_seek"}
                  /\ pc' = "homing_return"
                  /\ hm'.result
                  /\ currentPositionSteps' = 0
                  /\ currentCompartmentNumber' = 0]_vars
    /\ [][(pc \in {"homing_loop", "homing_seek"}
                /\ pc' = "homing_return" /\ hm'.result)
            => currentCompartmentNumber' = 0]_vars
    /\ [][((pc = "homing_loop" /\ pc' = "homing_seek")
                \/ (pc = "homing_seek" /\ pc' = "homing_loop")
                \/ (pc' = "homing_return" /\ ~hm'.result)
                \/ (pc = "move_validate" /\ ~IsValidCompartment(call.compartment)))
            => currentCompartmentNumber' = currentCompartmentNumber]_vars

C34_Witness ==
    /\ pc = "homing_return"
    /\ hm.caller = "cmd"
    /\ ~hm.result
    /\ hm.forwardNudges > 0
    /\ currentCompartmentNumber = 3
    /\ currentPositionSteps # compartmentStepPositions[3]

\* C35: the electromagnet is on only between the start and the end of a
\* pick/drop cycle; it is off when the single-pill routine has returned, with
\* pills counted or with its attempts exhausted, and it is off before and
\* after every step that pulses the tray stepper
C35_ElectromagnetOnlyInsideCycle ==
    /\ [](hw.isElectromagnetCurrentlyActivated
            => /\ call.name = "dispense"
               /\ pc \in {"cycle_lift", "cycle_window", "cycle_end",
                          "cycle_release"}
               /\ dp.attemptNumber \in 1..maximumDispenseAttempts)
    /\ [](pc \in {"dispense_accumulate", "dispense_loop", "done", "idle"}
            => ~hw.isElectromagnetCurrentlyActivated)
    /\ [][(trayPulsesSinceReset' # trayPulsesSinceReset
             \/ currentPositionSteps' # currentPositionSteps
             \/ pc \in {"homing_seek", "move_step"})
            => /\ ~hw.isElectromagnetCurrentlyActivated
               /\ ~hw'.isElectromagnetCurrentlyActivated]_vars

C35_Witness ==
    /\ pc = "dispense_accumulate"
    /\ dp.pillsDetected = 0
    /\ Len(dp.cycleCounts) = maximumDispenseAttempts
    /\ dp.invocations = 2
    /\ dp.totalPillsDetected > 0
    /\ ~hw.isElectromagnetCurrentlyActivated
    /\ hw.servo = moveServoToRestPosition

\* C36: a move that returns true without finding the label already at the
\* target leaves currentPositionSteps congruent to the step position of the
\* target modulo one revolution: exactly when steps were issued, within 4
\* steps and unchanged on the within-tolerance path
C36_MoveEndsAtTargetPosition ==
    /\ [][(pc = "move_step" /\ pc' = "move_return")
            => /\ mv'.result
               /\ (currentPositionSteps'
                       - compartmentStepPositions[call.compartment])
                      % totalStepsPerRevolution = 0]_vars
    /\ [][(pc = "move_validate" /\ pc' = "move_return" /\ mv'.result
             /\ currentCompartmentNumber # call.compartment)
            => /\ currentPositionSteps' = currentPositionSteps
               /\ \E d \in -4..4 :
                     (currentPositionSteps' + d
                          - compartmentStepPositions[call.compartment])
                         % totalStepsPerRevolution = 0]_vars

\* C36 witness: the move to compartment 5 from home took the short way round
C36_Witness ==
    /\ pc = "move_return"
    /\ mv.result
    /\ call.compartment = 5
    /\ mv.stepsToMove
           = compartmentStepPositions[5] - totalStepsPerRevolution
    /\ currentPositionSteps = mv.stepsToMove
    /\ currentCompartmentNumber = 5

\* C37: with no operation in progress and isSystemHomedAndReady true, the
\* tracked position is congruent modulo one revolution to the offset of the
\* tray from the home switch (no missed steps)
C37_HomedTrackerMatchesTray ==
    (pc \in {"idle", "done"} /\ isSystemHomedAndReady)
        => (currentPositionSteps - tray.offset) % totalStepsPerRevolution = 0

\* C38: every command the write callback has accepted (stored with the flag
\* set) is eventually returned to the main loop by
\* getAndClearMostRecentCommand, also when the next command is written before
\* the main loop has taken it, and the commands are returned in arrival order
C38_NoAcceptedCommandLost ==
    /\ \A k \in 1..MaxWrites :
          (ble.callback = "none" /\ ble.hasNewCommandToProcess
               /\ ble.mostRecentCommandReceived = k)
              ~> (\E i \in DOMAIN ble.handed : ble.handed[i] = k)
    /\ [](\A i, j \in DOMAIN ble.handed :
              i < j => ble.handed[i] <= ble.handed[j])

\* C39: after every disconnect the main loop eventually calls
\* startAdvertising, however the connection callbacks interleave with
\* updateConnectionStateInMainLoop, and it calls it at most once per
\* disconnect
C39_AdvertisingRestartedAfterDisconnect ==
    /\ ble.unanswered ~> ~ble.unanswered
    /\ [](ble.restarts <= ble.disconnects)

\* C40: in the boolean single-pill variant a dispense call with a valid
\* compartment returns a value in 0..n after n invocations; each invocation
\* runs at most maximumDispenseAttempts cycles and adds 1 to the result and
\* to the counter of the compartment exactly when the IR sensor was active
\* at a poll of one of its windows, and adds nothing otherwise
C40_SinglePillCounting ==
    /\ [](pc = "done"
            => /\ call.retInt \in 0..call.count
               /\ dp.invocations = call.count
               /\ call.retInt = dp.successfulDispenseCount)
    /\ [](/\ dp.successfulDispenseCount <= dp.invocations
          /\ dp.invocations <= call.count
          /\ dp.cycles <= maximumDispenseAttempts
          /\ \A i \in Compartments :
                dispensedCountForEachCompartment[i]
                    = IF i = call.compartment
                      THEN dp.successfulDispenseCount ELSE 0)
    /\ [](pc = "dispense_accumulate" => (dp.pillDetected <=> dp.anyActive))
    /\ [][pc = "dispense_accumulate"
            => /\ dp'.successfulDispenseCount
                     = dp.successfulDispenseCount + (IF dp.anyActive THEN 1 ELSE 0)
               /\ dispensedCountForEachCompartment'[call.compartment]
                     = dispensedCountForEachCompartment[call.compartment]
                           + (IF dp.anyActive THEN 1 ELSE 0)]_vars

\* C40 witness: two pills requested; the first invocation saw the sensor
\* active from the first poll of its third window, the second never
C40_Witness ==
    /\ pc = "done"
    /\ call.count = 2
    /\ call.retInt = 1
    /\ dp.cycles = maximumDispenseAttempts
    /\ ~dp.anyActive
    /\ dispensedCountForEachCompartment[call.compartment] = 1

====
